---------------------------- MODULE Spec2Model ----------------------------
(* Master-data service (UOM and Parameter): value objects, entities, the   *)
(* PostgreSQL repositories, the command/query handlers and the gRPC        *)
(* boundary adapters, as a state machine of concurrent requests against    *)
(* one relational store.                                                   *)
EXTENDS Integers, Sequences, FiniteSets, TLC

VARIABLES
    uomTable,     \* mst_uom: function from uom_code to row
    paramTable,   \* mst_parameter: function from parameter_code to row
    now,          \* reading of the wall clock (time.Now())
    slots,        \* one record per request, in the order of arrival
    issued,       \* number of requests accepted so far
    pin,          \* input of the last pure-function application
    pout,         \* output of the last pure-function application
    limiter,      \* the RateLimiter: its map of buckets and the buckets allocated
    allowing      \* one record per call of RateLimiter.Allow

vars == <<uomTable, paramTable, now, slots, issued, pin, pout, limiter, allowing>>

-----------------------------------------------------------------------------
(* Bounds of the model                                                     *)

NumSlots == 2
MaxPage == 3
MaxPageSize == 102
NumCalls == 2
MaxBurst == 3

Slots == 1..NumSlots

-----------------------------------------------------------------------------
(* Optional (pointer) values: nil is <<>>, &x is <<x>>                      *)

Nil == <<>>
Some(x) == <<x>>
IsNil(p) == p = <<>>
Deref(p) == p[1]

Min2(a, b) == IF a <= b THEN a ELSE b

-----------------------------------------------------------------------------
(* Strings that are matched against a pattern are sequences of characters. *)

Upper == {"A", "B", "C", "D", "E", "F", "G", "H", "I", "J", "K", "L", "M",
          "N", "O", "P", "Q", "R", "S", "T", "U", "V", "W", "X", "Y", "Z"}
Digit == {"0", "1", "2", "3", "4", "5", "6", "7", "8", "9"}

\* The characters of the model's strings, in ASCII order
Alphabet ==
    <<" ", "0", "1", "2", "3", "4", "5", "6", "7", "8", "9",
      "A", "B", "C", "D", "E", "F", "G", "H", "I", "J", "K", "L", "M",
      "N", "O", "P", "Q", "R", "S", "T", "U", "V", "W", "X", "Y", "Z", "_",
      "a", "b", "c", "d", "e", "f", "g", "h", "i", "j", "k", "l", "m",
      "n", "o", "p", "q", "r", "s", "t", "u", "v", "w", "x", "y", "z">>
Ord(c) == CHOOSE i \in 1..Len(Alphabet) : Alphabet[i] = c

\* s < t in the byte-wise order ORDER BY uses for the code columns
RECURSIVE StrLess(_, _)
StrLess(s, t) ==
    IF t = <<>> THEN FALSE
    ELSE IF s = <<>> THEN TRUE
    ELSE IF Ord(Head(s)) < Ord(Head(t)) THEN TRUE
    ELSE IF Ord(Head(s)) > Ord(Head(t)) THEN FALSE
    ELSE StrLess(Tail(s), Tail(t))

\* variant: the repetition allows one character more, ^[A-Z][A-Z0-9_]{0,n}$
MatchCodePattern_OneMore(s, n) ==
    /\ Len(s) >= 1
    /\ Len(s) <= n + 1
    /\ s[1] \in Upper
    /\ \A i \in 2..Len(s) : s[i] \in (Upper \cup Digit \cup {"_"})

\* ^[A-Z][A-Z0-9_]{0,n-1}$
MatchCodePattern(s, n) ==
    /\ Len(s) >= 1
    /\ Len(s) <= n
    /\ s[1] \in Upper
    /\ \A i \in 2..Len(s) : s[i] \in (Upper \cup Digit \cup {"_"})

UOMCodeMaxLen == 20
ParameterCodeMaxLen == 50

-----------------------------------------------------------------------------
(* Errors: id identifies the error value, wraps the sentinel it wraps.     *)

NewError(id, text) == [id |-> id, wraps |-> "", text |-> text]
Wrap(id, text, target) == [id |-> id, wraps |-> target.id, text |-> text]
ErrorsIs(err, target) == err.id = target.id \/ err.wraps = target.id

uom_ErrNotFound == NewError("uom.ErrNotFound", "uom not found")
uom_ErrAlreadyExists == NewError("uom.ErrAlreadyExists", "uom already exists")
uom_ErrEmptyName == NewError("uom.ErrEmptyName", "uom name cannot be empty")
uom_ErrEmptyCreatedBy == NewError("uom.ErrEmptyCreatedBy", "created_by cannot be empty")
uom_ErrInvalidUOMCode == NewError("uom.ErrInvalidUOMCode", "invalid uom code format")
uom_ErrInvalidCategory == NewError("uom.ErrInvalidCategory", "invalid uom category")

parameter_ErrNotFound == NewError("parameter.ErrNotFound", "parameter not found")
parameter_ErrAlreadyExists == NewError("parameter.ErrAlreadyExists", "parameter already exists")
parameter_ErrEmptyName == NewError("parameter.ErrEmptyName", "parameter name cannot be empty")
parameter_ErrEmptyCreatedBy == NewError("parameter.ErrEmptyCreatedBy", "created_by cannot be empty")
parameter_ErrInvalidCode == NewError("parameter.ErrInvalidCode", "invalid parameter code format")
parameter_ErrInvalidCategory == NewError("parameter.ErrInvalidCategory", "invalid parameter category")
parameter_ErrInvalidDataType == NewError("parameter.ErrInvalidDataType", "invalid parameter data type")
parameter_ErrMinGreaterThanMax ==
    NewError("parameter.ErrMinGreaterThanMax", "min_value cannot be greater than max_value")
parameter_ErrDropdownNoOptions ==
    NewError("parameter.ErrDropdownNoOptions", "dropdown type requires allowed_values")

\* Errors the storage driver returns; the repositories pass them on as they are.
ErrBadConn == NewError("driver.ErrBadConn", "driver: bad connection")
ErrCanceled == NewError("context.Canceled", "context canceled")
ErrUniqueViolation ==
    NewError("pgconn.23505", "ERROR: duplicate key value violates unique constraint (SQLSTATE 23505)")
ErrForeignKeyViolation ==
    NewError("pgconn.23503", "ERROR: insert or update violates foreign key constraint (SQLSTATE 23503)")

NoFault == Nil
Faults == {NoFault, Some(ErrBadConn)}

Ok(v) == [err |-> Nil, val |-> v]
Fail(e) == [err |-> Some(e), val |-> Nil]
\* a method with a pointer receiver: the error it returns and the receiver
\* as the call leaves it
Mutated(err, self) == [err |-> err, val |-> self]

-----------------------------------------------------------------------------
(* Value objects                                                           *)

uom_NewUOMCode(code) ==
    IF ~MatchCodePattern(code, UOMCodeMaxLen) THEN Fail(uom_ErrInvalidUOMCode)
    ELSE Ok(code)

uom_NewCategory(category) ==
    IF category \in {"WEIGHT", "VOLUME", "QUANTITY", "LENGTH"} THEN Ok(category)
    ELSE Fail(uom_ErrInvalidCategory)

parameter_NewParameterCode(code) ==
    IF ~MatchCodePattern(code, ParameterCodeMaxLen) THEN Fail(parameter_ErrInvalidCode)
    ELSE Ok(code)

parameter_NewCategory(category) ==
    IF category \in {"MACHINE", "MATERIAL", "QUALITY", "OUTPUT", "PROCESS"} THEN Ok(category)
    ELSE Fail(parameter_ErrInvalidCategory)

parameter_NewDataType(dataType) ==
    IF dataType \in {"NUMERIC", "TEXT", "BOOLEAN", "DROPDOWN"} THEN Ok(dataType)
    ELSE Fail(parameter_ErrInvalidDataType)

-----------------------------------------------------------------------------
(* ListFilter (the two entities' filters compute Offset and Limit alike)   *)

\* variant: the offset is taken from the page number itself
ListFilter_Offset_FromPage(f) ==
    LET page == IF f.Page <= 0 THEN 1 ELSE f.Page
    IN page * f.PageSize

ListFilter_Offset(f) ==
    LET page == IF f.Page <= 0 THEN 1 ELSE f.Page
    IN (page - 1) * f.PageSize

\* variant: no upper clamp
ListFilter_Limit_Unclamped(f) ==
    IF f.PageSize <= 0 THEN 10 ELSE f.PageSize

ListFilter_Limit(f) ==
    IF f.PageSize <= 0 THEN 10
    ELSE IF f.PageSize > 100 THEN 100
    ELSE f.PageSize

-----------------------------------------------------------------------------
(* UOM entity                                                              *)

\* variant: createdBy is examined before the name
uom_NewUOM_CreatedByFirst(code, name, category, createdBy, t) ==
    IF createdBy = "" THEN Fail(uom_ErrEmptyCreatedBy)
    ELSE IF name = "" THEN Fail(uom_ErrEmptyName)
    ELSE Ok([code |-> code, name |-> name, category |-> category,
             isBaseUOM |-> FALSE, createdAt |-> t, createdBy |-> createdBy,
             updatedAt |-> Nil, updatedBy |-> Nil])

uom_NewUOM(code, name, category, createdBy, t) ==
    IF name = "" THEN Fail(uom_ErrEmptyName)
    ELSE IF createdBy = "" THEN Fail(uom_ErrEmptyCreatedBy)
    ELSE Ok([code |-> code, name |-> name, category |-> category,
             isBaseUOM |-> FALSE, createdAt |-> t, createdBy |-> createdBy,
             updatedAt |-> Nil, updatedBy |-> Nil])

uom_Reconstitute(code, name, category, isBaseUOM, createdAt, createdBy, updatedAt, updatedBy) ==
    [code |-> code, name |-> name, category |-> category,
     isBaseUOM |-> isBaseUOM, createdAt |-> createdAt, createdBy |-> createdBy,
     updatedAt |-> updatedAt, updatedBy |-> updatedBy]

uom_SetAsBaseUOM(u) == [u EXCEPT !.isBaseUOM = TRUE]

\* variant: the name is not examined
uom_Update_AnyName(u, name, category, isBaseUOM, updatedBy, t) ==
    IF updatedBy = "" THEN Mutated(Some(uom_ErrEmptyCreatedBy), u)
    ELSE Mutated(Nil, [u EXCEPT !.name = name, !.category = category,
                      !.isBaseUOM = isBaseUOM,
                      !.updatedAt = Some(t), !.updatedBy = Some(updatedBy)])

uom_Update(u, name, category, isBaseUOM, updatedBy, t) ==
    IF name = "" THEN Mutated(Some(uom_ErrEmptyName), u)
    ELSE IF updatedBy = "" THEN Mutated(Some(uom_ErrEmptyCreatedBy), u)
    ELSE Mutated(Nil, [u EXCEPT !.name = name, !.category = category,
                      !.isBaseUOM = isBaseUOM,
                      !.updatedAt = Some(t), !.updatedBy = Some(updatedBy)])

-----------------------------------------------------------------------------
(* Parameter entity                                                        *)

parameter_NewParameter(code, name, category, dataType, createdBy, t) ==
    IF name = "" THEN Fail(parameter_ErrEmptyName)
    ELSE IF createdBy = "" THEN Fail(parameter_ErrEmptyCreatedBy)
    ELSE Ok([code |-> code, name |-> name, category |-> category,
             dataType |-> dataType, uom |-> Nil, minValue |-> Nil,
             maxValue |-> Nil, allowedValues |-> <<>>, isMandatory |-> FALSE,
             description |-> Nil, isActive |-> TRUE,
             createdAt |-> t, createdBy |-> createdBy,
             updatedAt |-> Nil, updatedBy |-> Nil])

parameter_Reconstitute(code, name, category, dataType, uom, minValue, maxValue, allowedValues, isMandatory, description, isActive, createdAt, createdBy, updatedAt, updatedBy) ==
    [code |-> code, name |-> name, category |-> category,
     dataType |-> dataType, uom |-> uom, minValue |-> minValue,
     maxValue |-> maxValue, allowedValues |-> allowedValues,
     isMandatory |-> isMandatory, description |-> description,
     isActive |-> isActive, createdAt |-> createdAt, createdBy |-> createdBy,
     updatedAt |-> updatedAt, updatedBy |-> updatedBy]

\* variant: the bounds are assigned before they are compared
parameter_SetNumericConstraints_AssignFirst(p, minVal, maxVal) ==
    IF ~IsNil(minVal) /\ ~IsNil(maxVal) /\ Deref(minVal) > Deref(maxVal)
    THEN Mutated(Some(parameter_ErrMinGreaterThanMax),
                 [p EXCEPT !.minValue = minVal, !.maxValue = maxVal])
    ELSE Mutated(Nil, [p EXCEPT !.minValue = minVal, !.maxValue = maxVal])

parameter_SetNumericConstraints(p, minVal, maxVal) ==
    IF ~IsNil(minVal) /\ ~IsNil(maxVal) /\ Deref(minVal) > Deref(maxVal)
    THEN Mutated(Some(parameter_ErrMinGreaterThanMax), p)
    ELSE Mutated(Nil, [p EXCEPT !.minValue = minVal, !.maxValue = maxVal])

\* variant: an empty list is refused for every data type
parameter_SetAllowedValues_AlwaysRequired(p, values) ==
    IF Len(values) = 0
    THEN Mutated(Some(parameter_ErrDropdownNoOptions), p)
    ELSE Mutated(Nil, [p EXCEPT !.allowedValues = values])

parameter_SetAllowedValues(p, values) ==
    IF p.dataType = "DROPDOWN" /\ Len(values) = 0
    THEN Mutated(Some(parameter_ErrDropdownNoOptions), p)
    ELSE Mutated(Nil, [p EXCEPT !.allowedValues = values])

parameter_SetUOM(p, uom) == [p EXCEPT !.uom = uom]
parameter_SetDescription(p, desc) == [p EXCEPT !.description = desc]
parameter_SetMandatory(p, mandatory) == [p EXCEPT !.isMandatory = mandatory]
parameter_Activate(p) == [p EXCEPT !.isActive = TRUE]
parameter_Deactivate(p) == [p EXCEPT !.isActive = FALSE]

parameter_Update(p, name, category, dataType, updatedBy, t) ==
    IF name = "" THEN Mutated(Some(parameter_ErrEmptyName), p)
    ELSE IF updatedBy = "" THEN Mutated(Some(parameter_ErrEmptyCreatedBy), p)
    ELSE Mutated(Nil, [p EXCEPT !.name = name, !.category = category,
                      !.dataType = dataType,
                      !.updatedAt = Some(t), !.updatedBy = Some(updatedBy)])

-----------------------------------------------------------------------------
(* Tables: a function from the primary key to the row.                     *)

HasRow(table, code) == code \in DOMAIN table
PutRow(table, code, row) ==
    [c \in (DOMAIN table) \cup {code} |-> IF c = code THEN row ELSE table[c]]
DropRow(table, code) == [c \in (DOMAIN table) \ {code} |-> table[c]]

\* The codes of S in ascending order (ORDER BY code)
RECURSIVE OrderByCode(_)
OrderByCode(S) ==
    IF S = {} THEN <<>>
    ELSE LET m == CHOOSE c \in S : \A d \in S \ {c} : StrLess(c, d)
         IN <<m>> \o OrderByCode(S \ {m})

\* LIMIT lim OFFSET off over an ordered result
LimitOffset(seq, lim, off) ==
    SubSeq(seq, off + 1, Min2(off + lim, Len(seq)))

ErrInvalidRowCount ==
    NewError("pgconn.2201X", "ERROR: OFFSET must not be negative (SQLSTATE 2201X)")

-----------------------------------------------------------------------------
(* UOMRepository over mst_uom.  fault is the failure of the statement, if  *)
(* any, as reported by the driver; each method returns the error, the      *)
(* value and the table after the statement.                                *)

RepoResult(err, val, table) == [err |-> err, val |-> val, table |-> table]

UomRowToEntity(row) ==
    LET codeVO == uom_NewUOMCode(row.uom_code)
        categoryVO == uom_NewCategory(row.uom_category)
    IN uom_Reconstitute(IF IsNil(codeVO.err) THEN codeVO.val ELSE <<>>,
                        row.uom_name,
                        IF IsNil(categoryVO.err) THEN categoryVO.val ELSE "",
                        row.is_base_uom, row.created_at, row.created_by,
                        row.updated_at, row.updated_by)

\* variant: is_base_uom is not among the inserted columns and takes its default
UOMRepository_Create_DefaultBase(table, entity, fault) ==
    IF ~IsNil(fault) THEN RepoResult(fault, Nil, table)
    ELSE IF HasRow(table, entity.code)
    THEN RepoResult(Some(ErrUniqueViolation), Nil, table)
    ELSE RepoResult(Nil, Nil,
            PutRow(table, entity.code,
                   [uom_code |-> entity.code, uom_name |-> entity.name,
                    uom_category |-> entity.category,
                    is_base_uom |-> FALSE,
                    created_at |-> entity.createdAt,
                    created_by |-> entity.createdBy,
                    updated_at |-> Nil, updated_by |-> Nil]))

UOMRepository_Create(table, entity, fault) ==
    IF ~IsNil(fault) THEN RepoResult(fault, Nil, table)
    ELSE IF HasRow(table, entity.code)
    THEN RepoResult(Some(ErrUniqueViolation), Nil, table)
    ELSE RepoResult(Nil, Nil,
            PutRow(table, entity.code,
                   [uom_code |-> entity.code, uom_name |-> entity.name,
                    uom_category |-> entity.category,
                    is_base_uom |-> entity.isBaseUOM,
                    created_at |-> entity.createdAt,
                    created_by |-> entity.createdBy,
                    updated_at |-> Nil, updated_by |-> Nil]))

UOMRepository_GetByCode(table, code, fault) ==
    IF ~IsNil(fault) THEN RepoResult(fault, Nil, table)
    ELSE IF ~HasRow(table, code) THEN RepoResult(Some(uom_ErrNotFound), Nil, table)
    ELSE RepoResult(Nil, UomRowToEntity(table[code]), table)

UomMatching(table, filter) ==
    {c \in DOMAIN table :
        IsNil(filter.Category) \/ table[c].uom_category = Deref(filter.Category)}

\* SELECT COUNT(*) of List
UOMRepository_ListCount(table, filter, fault) ==
    IF ~IsNil(fault) THEN RepoResult(fault, 0, table)
    ELSE RepoResult(Nil, Cardinality(UomMatching(table, filter)), table)

\* SELECT ... ORDER BY uom_code LIMIT .. OFFSET .. of List
UOMRepository_ListData(table, filter, fault) ==
    IF ~IsNil(fault) THEN RepoResult(fault, <<>>, table)
    ELSE IF ListFilter_Offset(filter) < 0
    THEN RepoResult(Some(ErrInvalidRowCount), <<>>, table)
    ELSE LET page == LimitOffset(OrderByCode(UomMatching(table, filter)),
                                 ListFilter_Limit(filter), ListFilter_Offset(filter))
         IN RepoResult(Nil, [i \in 1..Len(page) |-> UomRowToEntity(table[page[i]])], table)

\* variant: a row that is missing is inserted
UOMRepository_Update_Upsert(table, entity, fault) ==
    IF ~IsNil(fault) THEN RepoResult(fault, Nil, table)
    ELSE RepoResult(Nil, Nil,
            PutRow(table, entity.code,
                   [uom_code |-> entity.code,
                    uom_name |-> entity.name,
                    uom_category |-> entity.category,
                    is_base_uom |-> entity.isBaseUOM,
                    created_at |-> entity.createdAt,
                    created_by |-> entity.createdBy,
                    updated_at |-> entity.updatedAt,
                    updated_by |-> entity.updatedBy]))

\* variant: the statement also writes the creation stamps, from the update's
UOMRepository_Update_Restamp(table, entity, fault) ==
    IF ~IsNil(fault) THEN RepoResult(fault, Nil, table)
    ELSE IF ~HasRow(table, entity.code) THEN RepoResult(Some(uom_ErrNotFound), Nil, table)
    ELSE RepoResult(Nil, Nil,
            PutRow(table, entity.code,
                   [table[entity.code] EXCEPT
                        !.uom_name = entity.name,
                        !.uom_category = entity.category,
                        !.is_base_uom = entity.isBaseUOM,
                        !.created_at = Deref(entity.updatedAt),
                        !.created_by = Deref(entity.updatedBy),
                        !.updated_at = entity.updatedAt,
                        !.updated_by = entity.updatedBy]))

UOMRepository_Update(table, entity, fault) ==
    IF ~IsNil(fault) THEN RepoResult(fault, Nil, table)
    ELSE IF ~HasRow(table, entity.code) THEN RepoResult(Some(uom_ErrNotFound), Nil, table)
    ELSE RepoResult(Nil, Nil,
            PutRow(table, entity.code,
                   [table[entity.code] EXCEPT
                        !.uom_name = entity.name,
                        !.uom_category = entity.category,
                        !.is_base_uom = entity.isBaseUOM,
                        !.updated_at = entity.updatedAt,
                        !.updated_by = entity.updatedBy]))

\* variant: a statement that affects no row is taken for a success
UOMRepository_Delete_Idempotent(table, code, fault) ==
    IF ~IsNil(fault) THEN RepoResult(fault, Nil, table)
    ELSE RepoResult(Nil, Nil, DropRow(table, code))

UOMRepository_Delete(table, code, fault) ==
    IF ~IsNil(fault) THEN RepoResult(fault, Nil, table)
    ELSE IF ~HasRow(table, code) THEN RepoResult(Some(uom_ErrNotFound), Nil, table)
    ELSE RepoResult(Nil, Nil, DropRow(table, code))

UOMRepository_ExistsByCode(table, code, fault) ==
    IF ~IsNil(fault) THEN RepoResult(fault, FALSE, table)
    ELSE RepoResult(Nil, HasRow(table, code), table)

\* fk_mst_parameter_uom ... ON DELETE SET NULL
OnDeleteSetNull(ptable, utableBefore, utableAfter) ==
    [c \in DOMAIN ptable |->
        IF ~IsNil(ptable[c].uom)
           /\ Deref(ptable[c].uom) \in (DOMAIN utableBefore) \ (DOMAIN utableAfter)
        THEN [ptable[c] EXCEPT !.uom = Nil]
        ELSE ptable[c]]

-----------------------------------------------------------------------------
(* ParameterRepository over mst_parameter                                  *)

\* allowed_values JSONB: NULL for an empty list, the marshalled array otherwise
MarshalAllowedValues(values) ==
    IF Len(values) > 0 THEN Some([json |-> values]) ELSE Nil

UnmarshalAllowedValues(raw) ==
    IF ~IsNil(raw) THEN Deref(raw).json ELSE <<>>

\* fk_mst_parameter_uom: a non-NULL uom must be a row of mst_uom
ForeignKeyHolds(utable, uom) == IsNil(uom) \/ HasRow(utable, Deref(uom))

ParamRowToEntity(row) ==
    LET codeVO == parameter_NewParameterCode(row.parameter_code)
        categoryVO == parameter_NewCategory(row.parameter_category)
        dataTypeVO == parameter_NewDataType(row.data_type)
    IN parameter_Reconstitute(
        IF IsNil(codeVO.err) THEN codeVO.val ELSE <<>>,
        row.parameter_name,
        IF IsNil(categoryVO.err) THEN categoryVO.val ELSE "",
        IF IsNil(dataTypeVO.err) THEN dataTypeVO.val ELSE "",
        row.uom, row.min_value, row.max_value,
        UnmarshalAllowedValues(row.allowed_values),
        row.is_mandatory, row.description, row.is_active,
        row.created_at, row.created_by, row.updated_at, row.updated_by)

ParameterRepository_Create(table, utable, entity, fault) ==
    IF ~IsNil(fault) THEN RepoResult(fault, Nil, table)
    ELSE IF HasRow(table, entity.code)
    THEN RepoResult(Some(ErrUniqueViolation), Nil, table)
    ELSE IF ~ForeignKeyHolds(utable, entity.uom)
    THEN RepoResult(Some(ErrForeignKeyViolation), Nil, table)
    ELSE RepoResult(Nil, Nil,
            PutRow(table, entity.code,
                   [parameter_code |-> entity.code,
                    parameter_name |-> entity.name,
                    parameter_category |-> entity.category,
                    data_type |-> entity.dataType,
                    uom |-> entity.uom,
                    min_value |-> entity.minValue,
                    max_value |-> entity.maxValue,
                    allowed_values |-> MarshalAllowedValues(entity.allowedValues),
                    is_mandatory |-> entity.isMandatory,
                    description |-> entity.description,
                    is_active |-> entity.isActive,
                    created_at |-> entity.createdAt,
                    created_by |-> entity.createdBy,
                    updated_at |-> Nil, updated_by |-> Nil]))

ParameterRepository_GetByCode(table, code, fault) ==
    IF ~IsNil(fault) THEN RepoResult(fault, Nil, table)
    ELSE IF ~HasRow(table, code)
    THEN RepoResult(Some(parameter_ErrNotFound), Nil, table)
    ELSE RepoResult(Nil, ParamRowToEntity(table[code]), table)

ParamMatching(table, filter) ==
    {c \in DOMAIN table :
        /\ IsNil(filter.Category) \/ table[c].parameter_category = Deref(filter.Category)
        /\ IsNil(filter.IsActive) \/ table[c].is_active = Deref(filter.IsActive)}

ParameterRepository_ListCount(table, filter, fault) ==
    IF ~IsNil(fault) THEN RepoResult(fault, 0, table)
    ELSE RepoResult(Nil, Cardinality(ParamMatching(table, filter)), table)

ParameterRepository_ListData(table, filter, fault) ==
    IF ~IsNil(fault) THEN RepoResult(fault, <<>>, table)
    ELSE IF ListFilter_Offset(filter) < 0
    THEN RepoResult(Some(ErrInvalidRowCount), <<>>, table)
    ELSE LET page == LimitOffset(OrderByCode(ParamMatching(table, filter)),
                                 ListFilter_Limit(filter), ListFilter_Offset(filter))
         IN RepoResult(Nil, [i \in 1..Len(page) |-> ParamRowToEntity(table[page[i]])], table)

ParameterRepository_Update(table, utable, entity, fault) ==
    IF ~IsNil(fault) THEN RepoResult(fault, Nil, table)
    ELSE IF ~HasRow(table, entity.code)
    THEN RepoResult(Some(parameter_ErrNotFound), Nil, table)
    ELSE IF ~ForeignKeyHolds(utable, entity.uom)
    THEN RepoResult(Some(ErrForeignKeyViolation), Nil, table)
    ELSE RepoResult(Nil, Nil,
            PutRow(table, entity.code,
                   [table[entity.code] EXCEPT
                        !.parameter_name = entity.name,
                        !.parameter_category = entity.category,
                        !.data_type = entity.dataType,
                        !.uom = entity.uom,
                        !.min_value = entity.minValue,
                        !.max_value = entity.maxValue,
                        !.allowed_values = MarshalAllowedValues(entity.allowedValues),
                        !.is_mandatory = entity.isMandatory,
                        !.description = entity.description,
                        !.is_active = entity.isActive,
                        !.updated_at = entity.updatedAt,
                        !.updated_by = entity.updatedBy]))

ParameterRepository_Delete(table, code, fault) ==
    IF ~IsNil(fault) THEN RepoResult(fault, Nil, table)
    ELSE IF ~HasRow(table, code)
    THEN RepoResult(Some(parameter_ErrNotFound), Nil, table)
    ELSE RepoResult(Nil, Nil, DropRow(table, code))

ParameterRepository_ExistsByCode(table, code, fault) ==
    IF ~IsNil(fault) THEN RepoResult(fault, FALSE, table)
    ELSE RepoResult(Nil, HasRow(table, code), table)

-----------------------------------------------------------------------------
(* Command and query handlers.  A handler runs in phases, one per          *)
(* statement it sends to the store; a phase returns whether the handler    *)
(* has returned (fin), its error and value, the repository methods it      *)
(* called, the table after the phase and the locals the next phase needs.  *)

Phase(fin, err, val, calls, table, local) ==
    [fin |-> fin, err |-> err, val |-> val, calls |-> calls,
     table |-> table, local |-> local]

\* variant: the name is checked before the duplicate check
uom_CreateHandler_Check_NameFirst(table, cmd, fault) ==
    LET code == uom_NewUOMCode(cmd.UOMCode)
        category == uom_NewCategory(cmd.Category)
        exists == UOMRepository_ExistsByCode(table, code.val, fault)
    IN IF ~IsNil(code.err) THEN Phase(TRUE, code.err, Nil, <<>>, table, Nil)
       ELSE IF ~IsNil(category.err) THEN Phase(TRUE, category.err, Nil, <<>>, table, Nil)
       ELSE IF cmd.UOMName = ""
       THEN Phase(TRUE, Some(uom_ErrEmptyName), Nil, <<>>, table, Nil)
       ELSE IF ~IsNil(exists.err)
       THEN Phase(TRUE, exists.err, Nil, <<"ExistsByCode">>, table, Nil)
       ELSE IF exists.val
       THEN Phase(TRUE, Some(uom_ErrAlreadyExists), Nil, <<"ExistsByCode">>, table, Nil)
       ELSE Phase(FALSE, Nil, Nil, <<"ExistsByCode">>, table,
                  Some([code |-> code.val, category |-> category.val]))

\* application/uom CreateHandler.Handle: value objects and duplicate check
uom_CreateHandler_Check(table, cmd, fault) ==
    LET code == uom_NewUOMCode(cmd.UOMCode)
        category == uom_NewCategory(cmd.Category)
        exists == UOMRepository_ExistsByCode(table, code.val, fault)
    IN IF ~IsNil(code.err) THEN Phase(TRUE, code.err, Nil, <<>>, table, Nil)
       ELSE IF ~IsNil(category.err) THEN Phase(TRUE, category.err, Nil, <<>>, table, Nil)
       ELSE IF ~IsNil(exists.err)
       THEN Phase(TRUE, exists.err, Nil, <<"ExistsByCode">>, table, Nil)
       ELSE IF exists.val
       THEN Phase(TRUE, Some(uom_ErrAlreadyExists), Nil, <<"ExistsByCode">>, table, Nil)
       ELSE Phase(FALSE, Nil, Nil, <<"ExistsByCode">>, table,
                  Some([code |-> code.val, category |-> category.val]))

\* application/uom CreateHandler.Handle: entity construction and persistence
uom_CreateHandler_Persist(table, cmd, local, fault, t) ==
    LET made == uom_NewUOM(local.code, cmd.UOMName, local.category, cmd.CreatedBy, t)
        entity == IF cmd.IsBaseUOM THEN uom_SetAsBaseUOM(made.val) ELSE made.val
        created == UOMRepository_Create(table, entity, fault)
    IN IF ~IsNil(made.err) THEN Phase(TRUE, made.err, Nil, <<>>, table, Nil)
       ELSE IF ~IsNil(created.err)
       THEN Phase(TRUE, created.err, Nil, <<"Create">>, created.table, Nil)
       ELSE Phase(TRUE, Nil, Some(entity), <<"Create">>, created.table, Nil)

\* variant: the row is loaded before the category is validated
uom_UpdateHandler_Load_LoadFirst(table, cmd, fault) ==
    LET code == uom_NewUOMCode(cmd.UOMCode)
        category == uom_NewCategory(cmd.Category)
        loaded == UOMRepository_GetByCode(table, code.val, fault)
    IN IF ~IsNil(code.err) THEN Phase(TRUE, code.err, Nil, <<>>, table, Nil)
       ELSE IF ~IsNil(loaded.err)
       THEN Phase(TRUE, loaded.err, Nil, <<"GetByCode">>, table, Nil)
       ELSE IF ~IsNil(category.err)
       THEN Phase(TRUE, category.err, Nil, <<"GetByCode">>, table, Nil)
       ELSE Phase(FALSE, Nil, Nil, <<"GetByCode">>, table,
                  Some([entity |-> loaded.val, category |-> category.val]))

\* application/uom UpdateHandler.Handle: value objects and load
uom_UpdateHandler_Load(table, cmd, fault) ==
    LET code == uom_NewUOMCode(cmd.UOMCode)
        category == uom_NewCategory(cmd.Category)
        loaded == UOMRepository_GetByCode(table, code.val, fault)
    IN IF ~IsNil(code.err) THEN Phase(TRUE, code.err, Nil, <<>>, table, Nil)
       ELSE IF ~IsNil(category.err) THEN Phase(TRUE, category.err, Nil, <<>>, table, Nil)
       ELSE IF ~IsNil(loaded.err)
       THEN Phase(TRUE, loaded.err, Nil, <<"GetByCode">>, table, Nil)
       ELSE Phase(FALSE, Nil, Nil, <<"GetByCode">>, table,
                  Some([entity |-> loaded.val, category |-> category.val]))

\* variant: the repository's error is wrapped before it is returned
uom_UpdateHandler_Persist_Wrapped(table, cmd, local, fault, t) ==
    LET updated == uom_Update(local.entity, cmd.UOMName, local.category,
                              cmd.IsBaseUOM, cmd.UpdatedBy, t)
        stored == UOMRepository_Update(table, updated.val, fault)
    IN IF ~IsNil(updated.err) THEN Phase(TRUE, updated.err, Nil, <<>>, table, Nil)
       ELSE IF ~IsNil(stored.err)
       THEN Phase(TRUE, Some(Wrap("fmt.wrapError", "update uom", Deref(stored.err))),
                  Nil, <<"Update">>, stored.table, Nil)
       ELSE Phase(TRUE, Nil, Some(updated.val), <<"Update">>, stored.table, Nil)

\* application/uom UpdateHandler.Handle: entity update and persistence
uom_UpdateHandler_Persist(table, cmd, local, fault, t) ==
    LET updated == uom_Update(local.entity, cmd.UOMName, local.category,
                              cmd.IsBaseUOM, cmd.UpdatedBy, t)
        stored == UOMRepository_Update(table, updated.val, fault)
    IN IF ~IsNil(updated.err) THEN Phase(TRUE, updated.err, Nil, <<>>, table, Nil)
       ELSE IF ~IsNil(stored.err)
       THEN Phase(TRUE, stored.err, Nil, <<"Update">>, stored.table, Nil)
       ELSE Phase(TRUE, Nil, Some(updated.val), <<"Update">>, stored.table, Nil)

uom_DeleteHandler_Handle(table, cmd, fault) ==
    LET code == uom_NewUOMCode(cmd.UOMCode)
        deleted == UOMRepository_Delete(table, code.val, fault)
    IN IF ~IsNil(code.err) THEN Phase(TRUE, code.err, Nil, <<>>, table, Nil)
       ELSE Phase(TRUE, deleted.err, Nil, <<"Delete">>, deleted.table, Nil)

uom_GetHandler_Handle(table, query, fault) ==
    LET code == uom_NewUOMCode(query.UOMCode)
        found == UOMRepository_GetByCode(table, code.val, fault)
    IN IF ~IsNil(code.err) THEN Phase(TRUE, code.err, Nil, <<>>, table, Nil)
       ELSE IF ~IsNil(found.err)
       THEN Phase(TRUE, found.err, Nil, <<"GetByCode">>, table, Nil)
       ELSE Phase(TRUE, Nil, Some(found.val), <<"GetByCode">>, table, Nil)

\* application/uom ListHandler.Handle up to the COUNT statement of List
uom_ListHandler_Count(table, query, fault) ==
    LET cat == uom_NewCategory(Deref(query.Category))
        filter == [Page |-> query.Page, PageSize |-> query.PageSize,
                   Category |-> IF IsNil(query.Category) THEN Nil ELSE Some(cat.val)]
        counted == UOMRepository_ListCount(table, filter, fault)
    IN IF ~IsNil(query.Category) /\ ~IsNil(cat.err)
       THEN Phase(TRUE, cat.err, Nil, <<>>, table, Nil)
       ELSE IF ~IsNil(counted.err)
       THEN Phase(TRUE, counted.err, Nil, <<"List">>, table, Nil)
       ELSE Phase(FALSE, Nil, Nil, <<"List">>, table,
                  Some([filter |-> filter, total |-> counted.val]))

\* application/uom ListHandler.Handle from the data statement of List on
uom_ListHandler_Data(table, local, fault) ==
    LET rows == UOMRepository_ListData(table, local.filter, fault)
    IN IF ~IsNil(rows.err) THEN Phase(TRUE, rows.err, Nil, <<>>, table, Nil)
       ELSE Phase(TRUE, Nil, Some([UOMs |-> rows.val, Total |-> local.total]),
                  <<>>, table, Nil)

\* application/parameter CreateHandler.Handle: value objects and duplicate check
parameter_CreateHandler_Check(table, cmd, fault) ==
    LET code == parameter_NewParameterCode(cmd.ParameterCode)
        category == parameter_NewCategory(cmd.Category)
        dataType == parameter_NewDataType(cmd.DataType)
        exists == ParameterRepository_ExistsByCode(table, code.val, fault)
    IN IF ~IsNil(code.err) THEN Phase(TRUE, code.err, Nil, <<>>, table, Nil)
       ELSE IF ~IsNil(category.err) THEN Phase(TRUE, category.err, Nil, <<>>, table, Nil)
       ELSE IF ~IsNil(dataType.err) THEN Phase(TRUE, dataType.err, Nil, <<>>, table, Nil)
       ELSE IF ~IsNil(exists.err)
       THEN Phase(TRUE, exists.err, Nil, <<"ExistsByCode">>, table, Nil)
       ELSE IF exists.val
       THEN Phase(TRUE, Some(parameter_ErrAlreadyExists), Nil, <<"ExistsByCode">>, table, Nil)
       ELSE Phase(FALSE, Nil, Nil, <<"ExistsByCode">>, table,
                  Some([code |-> code.val, category |-> category.val,
                        dataType |-> dataType.val]))

\* application/parameter CreateHandler.Handle: entity, optional fields, persistence
parameter_CreateHandler_Persist(table, utable, cmd, local, fault, t) ==
    LET made == parameter_NewParameter(local.code, cmd.ParameterName, local.category,
                                       local.dataType, cmd.CreatedBy, t)
        e1 == parameter_SetMandatory(
                  parameter_SetDescription(parameter_SetUOM(made.val, cmd.UOM),
                                           cmd.Description),
                  cmd.IsMandatory)
        e2 == parameter_SetNumericConstraints(e1, cmd.MinValue, cmd.MaxValue)
        e3 == parameter_SetAllowedValues(e2.val, cmd.AllowedValues)
        created == ParameterRepository_Create(table, utable, e3.val, fault)
    IN IF ~IsNil(made.err) THEN Phase(TRUE, made.err, Nil, <<>>, table, Nil)
       ELSE IF ~IsNil(e2.err) THEN Phase(TRUE, e2.err, Nil, <<>>, table, Nil)
       ELSE IF ~IsNil(e3.err) THEN Phase(TRUE, e3.err, Nil, <<>>, table, Nil)
       ELSE IF ~IsNil(created.err)
       THEN Phase(TRUE, created.err, Nil, <<"Create">>, created.table, Nil)
       ELSE Phase(TRUE, Nil, Some(e3.val), <<"Create">>, created.table, Nil)

\* application/parameter UpdateHandler.Handle: value objects and load
parameter_UpdateHandler_Load(table, cmd, fault) ==
    LET code == parameter_NewParameterCode(cmd.ParameterCode)
        category == parameter_NewCategory(cmd.Category)
        dataType == parameter_NewDataType(cmd.DataType)
        loaded == ParameterRepository_GetByCode(table, code.val, fault)
    IN IF ~IsNil(code.err) THEN Phase(TRUE, code.err, Nil, <<>>, table, Nil)
       ELSE IF ~IsNil(category.err) THEN Phase(TRUE, category.err, Nil, <<>>, table, Nil)
       ELSE IF ~IsNil(dataType.err) THEN Phase(TRUE, dataType.err, Nil, <<>>, table, Nil)
       ELSE IF ~IsNil(loaded.err)
       THEN Phase(TRUE, loaded.err, Nil, <<"GetByCode">>, table, Nil)
       ELSE Phase(FALSE, Nil, Nil, <<"GetByCode">>, table,
                  Some([entity |-> loaded.val, category |-> category.val,
                        dataType |-> dataType.val]))

\* variant: the entity is stored before its constraints are checked
parameter_UpdateHandler_Persist_StoreFirst(table, utable, cmd, local, fault, t) ==
    LET updated == parameter_Update(local.entity, cmd.ParameterName, local.category,
                                    local.dataType, cmd.UpdatedBy, t)
        e1 == parameter_SetMandatory(
                  parameter_SetDescription(parameter_SetUOM(updated.val, cmd.UOM),
                                           cmd.Description),
                  cmd.IsMandatory)
        early == ParameterRepository_Update(table, utable, e1, fault)
        e2 == parameter_SetNumericConstraints(e1, cmd.MinValue, cmd.MaxValue)
        e3 == parameter_SetAllowedValues(e2.val, cmd.AllowedValues)
        e4 == IF cmd.IsActive THEN parameter_Activate(e3.val)
              ELSE parameter_Deactivate(e3.val)
        stored == ParameterRepository_Update(table, utable, e4, fault)
    IN IF ~IsNil(updated.err) THEN Phase(TRUE, updated.err, Nil, <<>>, table, Nil)
       ELSE IF ~IsNil(e2.err) THEN Phase(TRUE, e2.err, Nil, <<"Update">>, early.table, Nil)
       ELSE IF ~IsNil(e3.err) THEN Phase(TRUE, e3.err, Nil, <<"Update">>, early.table, Nil)
       ELSE IF ~IsNil(stored.err)
       THEN Phase(TRUE, stored.err, Nil, <<"Update">>, stored.table, Nil)
       ELSE Phase(TRUE, Nil, Some(e4), <<"Update">>, stored.table, Nil)

\* variant: the allowed values are set while the entity still has the data
\* type it was loaded with
parameter_UpdateHandler_Persist_ValuesFirst(table, utable, cmd, local, fault, t) ==
    LET e0 == parameter_SetAllowedValues(local.entity, cmd.AllowedValues)
        updated == parameter_Update(e0.val, cmd.ParameterName, local.category,
                                    local.dataType, cmd.UpdatedBy, t)
        e1 == parameter_SetMandatory(
                  parameter_SetDescription(parameter_SetUOM(updated.val, cmd.UOM),
                                           cmd.Description),
                  cmd.IsMandatory)
        e2 == parameter_SetNumericConstraints(e1, cmd.MinValue, cmd.MaxValue)
        e4 == IF cmd.IsActive THEN parameter_Activate(e2.val)
              ELSE parameter_Deactivate(e2.val)
        stored == ParameterRepository_Update(table, utable, e4, fault)
    IN IF ~IsNil(e0.err) THEN Phase(TRUE, e0.err, Nil, <<>>, table, Nil)
       ELSE IF ~IsNil(updated.err) THEN Phase(TRUE, updated.err, Nil, <<>>, table, Nil)
       ELSE IF ~IsNil(e2.err) THEN Phase(TRUE, e2.err, Nil, <<>>, table, Nil)
       ELSE IF ~IsNil(stored.err)
       THEN Phase(TRUE, stored.err, Nil, <<"Update">>, stored.table, Nil)
       ELSE Phase(TRUE, Nil, Some(e4), <<"Update">>, stored.table, Nil)

\* application/parameter UpdateHandler.Handle: entity update and persistence
parameter_UpdateHandler_Persist(table, utable, cmd, local, fault, t) ==
    LET updated == parameter_Update(local.entity, cmd.ParameterName, local.category,
                                    local.dataType, cmd.UpdatedBy, t)
        e1 == parameter_SetMandatory(
                  parameter_SetDescription(parameter_SetUOM(updated.val, cmd.UOM),
                                           cmd.Description),
                  cmd.IsMandatory)
        e2 == parameter_SetNumericConstraints(e1, cmd.MinValue, cmd.MaxValue)
        e3 == parameter_SetAllowedValues(e2.val, cmd.AllowedValues)
        e4 == IF cmd.IsActive THEN parameter_Activate(e3.val)
              ELSE parameter_Deactivate(e3.val)
        stored == ParameterRepository_Update(table, utable, e4, fault)
    IN IF ~IsNil(updated.err) THEN Phase(TRUE, updated.err, Nil, <<>>, table, Nil)
       ELSE IF ~IsNil(e2.err) THEN Phase(TRUE, e2.err, Nil, <<>>, table, Nil)
       ELSE IF ~IsNil(e3.err) THEN Phase(TRUE, e3.err, Nil, <<>>, table, Nil)
       ELSE IF ~IsNil(stored.err)
       THEN Phase(TRUE, stored.err, Nil, <<"Update">>, stored.table, Nil)
       ELSE Phase(TRUE, Nil, Some(e4), <<"Update">>, stored.table, Nil)

parameter_DeleteHandler_Handle(table, cmd, fault) ==
    LET code == parameter_NewParameterCode(cmd.ParameterCode)
        deleted == ParameterRepository_Delete(table, code.val, fault)
    IN IF ~IsNil(code.err) THEN Phase(TRUE, code.err, Nil, <<>>, table, Nil)
       ELSE Phase(TRUE, deleted.err, Nil, <<"Delete">>, deleted.table, Nil)

parameter_GetHandler_Handle(table, query, fault) ==
    LET code == parameter_NewParameterCode(query.ParameterCode)
        found == ParameterRepository_GetByCode(table, code.val, fault)
    IN IF ~IsNil(code.err) THEN Phase(TRUE, code.err, Nil, <<>>, table, Nil)
       ELSE IF ~IsNil(found.err)
       THEN Phase(TRUE, found.err, Nil, <<"GetByCode">>, table, Nil)
       ELSE Phase(TRUE, Nil, Some(found.val), <<"GetByCode">>, table, Nil)

\* application/parameter ListHandler.Handle up to the COUNT statement of List
parameter_ListHandler_Count(table, query, fault) ==
    LET cat == parameter_NewCategory(Deref(query.Category))
        filter == [Page |-> query.Page, PageSize |-> query.PageSize,
                   IsActive |-> query.IsActive,
                   Category |-> IF IsNil(query.Category) THEN Nil ELSE Some(cat.val)]
        counted == ParameterRepository_ListCount(table, filter, fault)
    IN IF ~IsNil(query.Category) /\ ~IsNil(cat.err)
       THEN Phase(TRUE, cat.err, Nil, <<>>, table, Nil)
       ELSE IF ~IsNil(counted.err)
       THEN Phase(TRUE, counted.err, Nil, <<"List">>, table, Nil)
       ELSE Phase(FALSE, Nil, Nil, <<"List">>, table,
                  Some([filter |-> filter, total |-> counted.val]))

\* application/parameter ListHandler.Handle from the data statement of List on
parameter_ListHandler_Data(table, local, fault) ==
    LET rows == ParameterRepository_ListData(table, local.filter, fault)
    IN IF ~IsNil(rows.err) THEN Phase(TRUE, rows.err, Nil, <<>>, table, Nil)
       ELSE Phase(TRUE, Nil, Some([Parameters |-> rows.val, Total |-> local.total]),
                  <<>>, table, Nil)

-----------------------------------------------------------------------------
(* Boundary adapters (gRPC handlers)                                       *)

pbCategoryToString(cat) ==
    CASE cat = "UOM_CATEGORY_WEIGHT" -> "WEIGHT"
      [] cat = "UOM_CATEGORY_VOLUME" -> "VOLUME"
      [] cat = "UOM_CATEGORY_QUANTITY" -> "QUANTITY"
      [] cat = "UOM_CATEGORY_LENGTH" -> "LENGTH"
      [] OTHER -> ""

stringToPbCategory(cat) ==
    CASE cat = "WEIGHT" -> "UOM_CATEGORY_WEIGHT"
      [] cat = "VOLUME" -> "UOM_CATEGORY_VOLUME"
      [] cat = "QUANTITY" -> "UOM_CATEGORY_QUANTITY"
      [] cat = "LENGTH" -> "UOM_CATEGORY_LENGTH"
      [] OTHER -> "UOM_CATEGORY_UNSPECIFIED"

pbParamCategoryToString(cat) ==
    CASE cat = "PARAMETER_CATEGORY_MACHINE" -> "MACHINE"
      [] cat = "PARAMETER_CATEGORY_MATERIAL" -> "MATERIAL"
      [] cat = "PARAMETER_CATEGORY_QUALITY" -> "QUALITY"
      [] cat = "PARAMETER_CATEGORY_OUTPUT" -> "OUTPUT"
      [] cat = "PARAMETER_CATEGORY_PROCESS" -> "PROCESS"
      [] OTHER -> ""

\* variant: the PROCESS case is missing
stringToPbParamCategory_NoProcess(cat) ==
    CASE cat = "MACHINE" -> "PARAMETER_CATEGORY_MACHINE"
      [] cat = "MATERIAL" -> "PARAMETER_CATEGORY_MATERIAL"
      [] cat = "QUALITY" -> "PARAMETER_CATEGORY_QUALITY"
      [] cat = "OUTPUT" -> "PARAMETER_CATEGORY_OUTPUT"
      [] OTHER -> "PARAMETER_CATEGORY_UNSPECIFIED"

stringToPbParamCategory(cat) ==
    CASE cat = "MACHINE" -> "PARAMETER_CATEGORY_MACHINE"
      [] cat = "MATERIAL" -> "PARAMETER_CATEGORY_MATERIAL"
      [] cat = "QUALITY" -> "PARAMETER_CATEGORY_QUALITY"
      [] cat = "OUTPUT" -> "PARAMETER_CATEGORY_OUTPUT"
      [] cat = "PROCESS" -> "PARAMETER_CATEGORY_PROCESS"
      [] OTHER -> "PARAMETER_CATEGORY_UNSPECIFIED"

pbDataTypeToString(dt) ==
    CASE dt = "PARAMETER_DATA_TYPE_NUMERIC" -> "NUMERIC"
      [] dt = "PARAMETER_DATA_TYPE_TEXT" -> "TEXT"
      [] dt = "PARAMETER_DATA_TYPE_BOOLEAN" -> "BOOLEAN"
      [] dt = "PARAMETER_DATA_TYPE_DROPDOWN" -> "DROPDOWN"
      [] OTHER -> ""

stringToPbDataType(dt) ==
    CASE dt = "NUMERIC" -> "PARAMETER_DATA_TYPE_NUMERIC"
      [] dt = "TEXT" -> "PARAMETER_DATA_TYPE_TEXT"
      [] dt = "BOOLEAN" -> "PARAMETER_DATA_TYPE_BOOLEAN"
      [] dt = "DROPDOWN" -> "PARAMETER_DATA_TYPE_DROPDOWN"
      [] OTHER -> "PARAMETER_DATA_TYPE_UNSPECIFIED"

BaseResponse(statusCode, isSuccess, message, validationErrors) ==
    [status_code |-> statusCode, is_success |-> isSuccess,
     message |-> message, validation_errors |-> validationErrors]

successResponse(message) == BaseResponse("200", TRUE, message, <<>>)
paramSuccessResponse(message) == BaseResponse("200", TRUE, message, <<>>)

\* variant: an empty name is not translated
errorToBaseResponse_NameInternal(err) ==
    IF ErrorsIs(err, uom_ErrNotFound) THEN BaseResponse("404", FALSE, err.text, <<>>)
    ELSE IF ErrorsIs(err, uom_ErrAlreadyExists) THEN BaseResponse("409", FALSE, err.text, <<>>)
    ELSE IF \/ ErrorsIs(err, uom_ErrInvalidUOMCode)
            \/ ErrorsIs(err, uom_ErrInvalidCategory)
    THEN BaseResponse("400", FALSE, err.text, <<>>)
    ELSE BaseResponse("500", FALSE, "Internal server error", <<>>)

errorToBaseResponse(err) ==
    IF ErrorsIs(err, uom_ErrNotFound) THEN BaseResponse("404", FALSE, err.text, <<>>)
    ELSE IF ErrorsIs(err, uom_ErrAlreadyExists) THEN BaseResponse("409", FALSE, err.text, <<>>)
    ELSE IF \/ ErrorsIs(err, uom_ErrInvalidUOMCode)
            \/ ErrorsIs(err, uom_ErrInvalidCategory)
            \/ ErrorsIs(err, uom_ErrEmptyName)
    THEN BaseResponse("400", FALSE, err.text, <<>>)
    ELSE BaseResponse("500", FALSE, "Internal server error", <<>>)

\* variant: the fallback carries the error's own text
paramErrorToBaseResponse_Leaky(err) ==
    IF ErrorsIs(err, parameter_ErrNotFound) THEN BaseResponse("404", FALSE, err.text, <<>>)
    ELSE IF ErrorsIs(err, parameter_ErrAlreadyExists)
    THEN BaseResponse("409", FALSE, err.text, <<>>)
    ELSE IF \/ ErrorsIs(err, parameter_ErrInvalidCode)
            \/ ErrorsIs(err, parameter_ErrInvalidCategory)
            \/ ErrorsIs(err, parameter_ErrInvalidDataType)
            \/ ErrorsIs(err, parameter_ErrEmptyName)
            \/ ErrorsIs(err, parameter_ErrMinGreaterThanMax)
            \/ ErrorsIs(err, parameter_ErrDropdownNoOptions)
    THEN BaseResponse("400", FALSE, err.text, <<>>)
    ELSE BaseResponse("500", FALSE, err.text, <<>>)

paramErrorToBaseResponse(err) ==
    IF ErrorsIs(err, parameter_ErrNotFound) THEN BaseResponse("404", FALSE, err.text, <<>>)
    ELSE IF ErrorsIs(err, parameter_ErrAlreadyExists)
    THEN BaseResponse("409", FALSE, err.text, <<>>)
    ELSE IF \/ ErrorsIs(err, parameter_ErrInvalidCode)
            \/ ErrorsIs(err, parameter_ErrInvalidCategory)
            \/ ErrorsIs(err, parameter_ErrInvalidDataType)
            \/ ErrorsIs(err, parameter_ErrEmptyName)
            \/ ErrorsIs(err, parameter_ErrMinGreaterThanMax)
            \/ ErrorsIs(err, parameter_ErrDropdownNoOptions)
    THEN BaseResponse("400", FALSE, err.text, <<>>)
    ELSE BaseResponse("500", FALSE, "Internal server error", <<>>)

\* time.Time.Format("2006-01-02T15:04:05Z07:00") of a clock reading
FormatRFC3339(t) == [rfc3339 |-> t]

entityToProto(entity) ==
    [uom_code |-> entity.code, uom_name |-> entity.name,
     uom_category |-> stringToPbCategory(entity.category),
     is_base_uom |-> entity.isBaseUOM,
     audit |-> [created_at |-> FormatRFC3339(entity.createdAt),
                created_by |-> entity.createdBy,
                updated_at |-> IF IsNil(entity.updatedAt) THEN Nil
                               ELSE Some(FormatRFC3339(Deref(entity.updatedAt))),
                updated_by |-> entity.updatedBy]]

paramEntityToProto(entity) ==
    [parameter_code |-> entity.code, parameter_name |-> entity.name,
     parameter_category |-> stringToPbParamCategory(entity.category),
     data_type |-> stringToPbDataType(entity.dataType),
     uom |-> entity.uom, min_value |-> entity.minValue,
     max_value |-> entity.maxValue, allowed_values |-> entity.allowedValues,
     is_mandatory |-> entity.isMandatory, description |-> entity.description,
     is_active |-> entity.isActive,
     audit |-> [created_at |-> FormatRFC3339(entity.createdAt),
                created_by |-> entity.createdBy,
                updated_at |-> IF IsNil(entity.updatedAt) THEN Nil
                               ELSE Some(FormatRFC3339(Deref(entity.updatedAt))),
                updated_by |-> entity.updatedBy]]

\* Go's integer division and remainder truncate toward zero
Abs(x) == IF x < 0 THEN -x ELSE x
GoQuo(a, b) ==
    IF (a < 0) = (b < 0) THEN Abs(a) \div Abs(b) ELSE -(Abs(a) \div Abs(b))
GoRem(a, b) == a - b * GoQuo(a, b)

\* totalPages of ListUOMs / ListParameters; dividing by zero panics
TotalPages(total, pageSize) ==
    IF pageSize = 0 THEN [panic |-> TRUE, val |-> 0]
    ELSE [panic |-> FALSE,
          val |-> IF GoRem(total, pageSize) > 0
                  THEN GoQuo(total, pageSize) + 1
                  ELSE GoQuo(total, pageSize)]

\* What the caller of an RPC receives: the transport-level error (nil or a
\* status code), the envelope, the payload and the pagination block.
Reply(base, data, pagination) ==
    [transport |-> Nil, base |-> Some(base), data |-> data, pagination |-> pagination]

\* interceptors.Recovery: a panicking handler yields codes.Internal and no response
Recovered == [transport |-> Some("Internal"), base |-> Nil, data |-> Nil, pagination |-> Nil]

-----------------------------------------------------------------------------
(* Requests the model issues                                               *)

KG == <<"K", "G">>
LTR == <<"L">>
MTR == <<"M">>
LowerKg == <<"k", "g">>
PH == <<"P", "H">>
RPM == <<"R", "P", "M">>
TAG == <<"T", "A", "G">>
LowerPh == <<"p", "h">>

UomRequest(code, name, category, isBase) ==
    [uom_code |-> code, uom_name |-> name, uom_category |-> category,
     is_base_uom |-> isBase]

CreateUOMRequests ==
    { UomRequest(KG, "Kilogram", "UOM_CATEGORY_WEIGHT", TRUE),
      UomRequest(KG, "Kilo", "UOM_CATEGORY_QUANTITY", FALSE),
      UomRequest(LowerKg, "Kilogram", "UOM_CATEGORY_WEIGHT", FALSE),
      UomRequest(MTR, "", "UOM_CATEGORY_LENGTH", FALSE) }

UpdateUOMRequests ==
    { UomRequest(MTR, "Metre", "UOM_CATEGORY_VOLUME", TRUE),
      UomRequest(MTR, "", "UOM_CATEGORY_LENGTH", FALSE),
      UomRequest(MTR, "Metre", "UOM_CATEGORY_UNSPECIFIED", FALSE),
      UomRequest(KG, "Kilo", "UOM_CATEGORY_WEIGHT", FALSE) }

GetUOMRequests == { [uom_code |-> c] : c \in {KG, MTR} }
DeleteUOMRequests == { [uom_code |-> c] : c \in {MTR, LowerKg} }

ListRequest(page, pageSize, category, isActive) ==
    [page |-> page, page_size |-> pageSize, category |-> category,
     is_active |-> isActive]

ListUOMsRequests ==
    { ListRequest(1, 2, Nil, Nil), ListRequest(2, 2, Nil, Nil),
      ListRequest(1, 0, Nil, Nil), ListRequest(1, -2, Nil, Nil),
      ListRequest(1, 1, Some("UOM_CATEGORY_VOLUME"), Nil),
      ListRequest(1, 1, Some("UOM_CATEGORY_99"), Nil) }

ParamRequest ==
    [parameter_code |-> PH, parameter_name |-> "Acidity",
     parameter_category |-> "PARAMETER_CATEGORY_QUALITY",
     data_type |-> "PARAMETER_DATA_TYPE_NUMERIC",
     uom |-> Some(KG), min_value |-> Some(1), max_value |-> Some(2),
     allowed_values |-> <<>>, is_mandatory |-> TRUE,
     description |-> Some("pH of the bath"), is_active |-> TRUE]

\* r with an empty name, with min > max, and as a DROPDOWN without options
InvalidVariants(r) ==
    { [r EXCEPT !.parameter_name = ""],
      [r EXCEPT !.min_value = Some(2), !.max_value = Some(1)],
      [r EXCEPT !.data_type = "PARAMETER_DATA_TYPE_DROPDOWN"] }

CreateParameterRequests ==
    { ParamRequest,
      [ParamRequest EXCEPT !.data_type = "PARAMETER_DATA_TYPE_DROPDOWN",
                           !.allowed_values = <<"A", "B">>, !.uom = Nil],
      [ParamRequest EXCEPT !.parameter_code = LowerPh],
      [ParamRequest EXCEPT !.data_type = "PARAMETER_DATA_TYPE_UNSPECIFIED"] }
    \cup InvalidVariants([ParamRequest EXCEPT !.parameter_code = RPM])

\* requests the schema validation of CreateParameter may reject
RejectableRequests == { [ParamRequest EXCEPT !.parameter_name = ""] }

UpdateParameterRequests ==
    { [ParamRequest EXCEPT !.parameter_code = RPM, !.max_value = Some(3),
                           !.uom = Some(LTR),
                           !.data_type = "PARAMETER_DATA_TYPE_DROPDOWN",
                           !.allowed_values = <<"B", "A">>],
      [ParamRequest EXCEPT !.parameter_code = TAG, !.is_active = FALSE,
                           !.uom = Nil],
      [ParamRequest EXCEPT !.parameter_code = RPM,
                           !.parameter_category = "PARAMETER_CATEGORY_UNSPECIFIED"] }
    \cup InvalidVariants([ParamRequest EXCEPT !.parameter_code = RPM, !.uom = Nil])

GetParameterRequests == { [parameter_code |-> c] : c \in {RPM, LowerPh} }
DeleteParameterRequests == { [parameter_code |-> RPM] }

ListParametersRequests ==
    { ListRequest(2, 1, Nil, Nil),
      ListRequest(1, 2, Some("PARAMETER_CATEGORY_MACHINE"), Some(TRUE)),
      ListRequest(1, 2, Some("PARAMETER_CATEGORY_99"), Nil) }

\* Outcomes of protovalidate on a CreateParameterRequest: no violation, or some
ValidateOutcomes ==
    { <<>>, <<[field |-> "parameter_name", message |-> "value is required"]>> }

\* Rows present when the service starts
SeedUomTable ==
    [c \in {LTR, MTR} |->
        [uom_code |-> c,
         uom_name |-> IF c = LTR THEN "Liter" ELSE "Meter",
         uom_category |-> IF c = LTR THEN "VOLUME" ELSE "LENGTH",
         is_base_uom |-> (c = LTR),
         created_at |-> 0, created_by |-> "system",
         updated_at |-> Nil, updated_by |-> Nil]]

SeedParamTable ==
    [c \in {RPM, TAG} |->
        [parameter_code |-> c,
         parameter_name |-> IF c = RPM THEN "Rotation Per Minute" ELSE "Quality Grade",
         parameter_category |-> IF c = RPM THEN "MACHINE" ELSE "QUALITY",
         data_type |-> IF c = RPM THEN "NUMERIC" ELSE "DROPDOWN",
         uom |-> IF c = RPM THEN Some(MTR) ELSE Nil,
         min_value |-> IF c = RPM THEN Some(1) ELSE Nil,
         max_value |-> IF c = RPM THEN Some(2) ELSE Nil,
         allowed_values |-> IF c = RPM THEN Nil ELSE Some([json |-> <<"A", "B">>]),
         is_mandatory |-> FALSE, description |-> Nil, is_active |-> TRUE,
         created_at |-> 0, created_by |-> "system",
         updated_at |-> Nil, updated_by |-> Nil]]

-----------------------------------------------------------------------------
(* Request slots                                                           *)

Idle ==
    [pc |-> "idle", op |-> "", req |-> Nil, local |-> Nil, calls |-> <<>>,
     invoked |-> FALSE, herr |-> Nil, hval |-> Nil, resp |-> Nil]

\* the handler has not returned yet: it waits for its next statement
Waiting(op, pc, req, ph) ==
    [pc |-> pc, op |-> op, req |-> Some(req), local |-> ph.local,
     calls |-> ph.calls, invoked |-> TRUE, herr |-> Nil, hval |-> Nil, resp |-> Nil]

\* the adapter has returned resp to the RPC layer; herr and hval are what
\* the handler returned to the adapter
Finished(op, req, calls, invoked, herr, hval, resp) ==
    [pc |-> "done", op |-> op, req |-> Some(req), local |-> Nil,
     calls |-> calls, invoked |-> invoked, herr |-> herr, hval |-> hval,
     resp |-> Some(resp)]

CreateUOM_Command(req) ==
    [UOMCode |-> req.uom_code, UOMName |-> req.uom_name,
     Category |-> pbCategoryToString(req.uom_category),
     IsBaseUOM |-> req.is_base_uom, CreatedBy |-> "system"]

UpdateUOM_Command(req) ==
    [UOMCode |-> req.uom_code, UOMName |-> req.uom_name,
     Category |-> pbCategoryToString(req.uom_category),
     IsBaseUOM |-> req.is_base_uom, UpdatedBy |-> "system"]

ListUOMs_Query(req) ==
    [Page |-> req.page, PageSize |-> req.page_size,
     Category |-> IF ~IsNil(req.category)
                     /\ Deref(req.category) # "UOM_CATEGORY_UNSPECIFIED"
                  THEN Some(pbCategoryToString(Deref(req.category)))
                  ELSE Nil]

\* the reply of the UOM adapter's methods that return one entity or none
UomReply(ph, message) ==
    IF ~IsNil(ph.err) THEN Reply(errorToBaseResponse(Deref(ph.err)), Nil, Nil)
    ELSE Reply(successResponse(message),
               IF IsNil(ph.val) THEN Nil ELSE Some(entityToProto(Deref(ph.val))),
               Nil)

ListUOMs_Reply(req, ph) ==
    IF ~IsNil(ph.err) THEN Reply(errorToBaseResponse(Deref(ph.err)), Nil, Nil)
    ELSE LET result == Deref(ph.val)
             totalPages == TotalPages(result.Total, req.page_size)
         IN IF totalPages.panic THEN Recovered
            ELSE Reply(successResponse("UOMs retrieved successfully"),
                       Some([i \in 1..Len(result.UOMs) |-> entityToProto(result.UOMs[i])]),
                       Some([current_page |-> req.page, page_size |-> req.page_size,
                             total_items |-> result.Total,
                             total_pages |-> totalPages.val]))

CreateParameter_Command(req) ==
    [ParameterCode |-> req.parameter_code, ParameterName |-> req.parameter_name,
     Category |-> pbParamCategoryToString(req.parameter_category),
     DataType |-> pbDataTypeToString(req.data_type),
     UOM |-> req.uom, MinValue |-> req.min_value, MaxValue |-> req.max_value,
     AllowedValues |-> req.allowed_values, IsMandatory |-> req.is_mandatory,
     Description |-> req.description, CreatedBy |-> "system"]

UpdateParameter_Command(req) ==
    [ParameterCode |-> req.parameter_code, ParameterName |-> req.parameter_name,
     Category |-> pbParamCategoryToString(req.parameter_category),
     DataType |-> pbDataTypeToString(req.data_type),
     UOM |-> req.uom, MinValue |-> req.min_value, MaxValue |-> req.max_value,
     AllowedValues |-> req.allowed_values, IsMandatory |-> req.is_mandatory,
     Description |-> req.description, IsActive |-> req.is_active,
     UpdatedBy |-> "system"]

ListParameters_Query(req) ==
    [Page |-> req.page, PageSize |-> req.page_size, IsActive |-> req.is_active,
     Category |-> IF ~IsNil(req.category)
                     /\ Deref(req.category) # "PARAMETER_CATEGORY_UNSPECIFIED"
                  THEN Some(pbParamCategoryToString(Deref(req.category)))
                  ELSE Nil]

ParamReply(ph, message) ==
    IF ~IsNil(ph.err) THEN Reply(paramErrorToBaseResponse(Deref(ph.err)), Nil, Nil)
    ELSE Reply(paramSuccessResponse(message),
               IF IsNil(ph.val) THEN Nil ELSE Some(paramEntityToProto(Deref(ph.val))),
               Nil)

ListParameters_Reply(req, ph) ==
    IF ~IsNil(ph.err) THEN Reply(paramErrorToBaseResponse(Deref(ph.err)), Nil, Nil)
    ELSE LET result == Deref(ph.val)
             totalPages == TotalPages(result.Total, req.page_size)
         IN IF totalPages.panic THEN Recovered
            ELSE Reply(paramSuccessResponse("Parameters retrieved successfully"),
                       Some([i \in 1..Len(result.Parameters) |->
                                paramEntityToProto(result.Parameters[i])]),
                       Some([current_page |-> req.page, page_size |-> req.page_size,
                             total_items |-> result.Total,
                             total_pages |-> totalPages.val]))

\* ValidationHelper.Validate: the envelope for a request with violations
ValidationHelper_Validate(violations) ==
    IF violations = <<>> THEN Nil
    ELSE Some(BaseResponse("400", FALSE, "Validation failed", violations))

-----------------------------------------------------------------------------
(* The rate limiter.  Tokens are float64 in the code; here they are counted *)
(* in halves of a token, and the clock in seconds.                          *)

Unit == 2

minFloat(a, b) == IF a < b THEN a ELSE b

NewTokenBucket(maxTokens, refillRate, t) ==
    [tokens |-> maxTokens, maxTokens |-> maxTokens, refillRate |-> refillRate,
     lastRefill |-> t]

\* variant: the refill is not capped
TokenBucket_Allow_Uncapped(tb, t) ==
    LET elapsed == t - tb.lastRefill
        refilled == [tb EXCEPT !.tokens = tb.tokens + elapsed * tb.refillRate,
                               !.lastRefill = t]
    IN IF refilled.tokens >= Unit
       THEN [ok |-> TRUE, tb |-> [refilled EXCEPT !.tokens = @ - Unit]]
       ELSE [ok |-> FALSE, tb |-> refilled]

\* TokenBucket.Allow with the clock reading t: what it returns and the bucket
\* afterwards
TokenBucket_Allow(tb, t) ==
    LET elapsed == t - tb.lastRefill
        refilled == [tb EXCEPT !.tokens = minFloat(tb.maxTokens,
                                                   tb.tokens + elapsed * tb.refillRate),
                               !.lastRefill = t]
    IN IF refilled.tokens >= Unit
       THEN [ok |-> TRUE, tb |-> [refilled EXCEPT !.tokens = @ - Unit]]
       ELSE [ok |-> FALSE, tb |-> refilled]

\* buckets maps a key to the address of its bucket; heap holds every bucket
\* allocated so far, by address, and made the key each was allocated for
NewRateLimiter(maxTokens, refillRate) ==
    [buckets |-> [k \in {} |-> 0], maxTokens |-> maxTokens, refillRate |-> refillRate,
     heap |-> <<>>, made |-> <<>>]

Calls == 1..NumCalls
Keys == {"10.0.0.1", "10.0.0.2"}

\* a call of RateLimiter.Allow that has not begun
NotCalled ==
    [pc |-> "idle", key |-> "", bucket |-> 0, exists |-> FALSE, unseen |-> FALSE,
     ok |-> FALSE, at |-> 0]

-----------------------------------------------------------------------------
(* Actions                                                                 *)

Init ==
    /\ uomTable = SeedUomTable
    /\ paramTable = SeedParamTable
    /\ now = 0
    /\ slots = [s \in Slots |-> Idle]
    /\ issued = 0
    /\ pin = Nil
    /\ pout = Nil
    /\ limiter = NewRateLimiter(Unit, 0)
    /\ allowing = [g \in Calls |-> NotCalled]

\* requests are numbered in the order they arrive; the clock advances
\* between two arrivals
Accept(s) ==
    /\ s = issued + 1
    /\ slots[s].pc = "idle"
    /\ issued' = issued + 1
    /\ now' = now + 1

At(s, op, pc) == slots[s].pc = pc /\ slots[s].op = op

\* first phase of a request: it returns, or it waits at nextpc
Begin(s, op, req, ph, reply, nextpc) ==
    slots' = [slots EXCEPT ![s] =
                IF ph.fin THEN Finished(op, req, ph.calls, TRUE, ph.err, ph.val, reply)
                ELSE Waiting(op, nextpc, req, ph)]

\* last phase of a request
Resume(s, ph, reply) ==
    slots' = [slots EXCEPT ![s] =
                Finished(slots[s].op, Deref(slots[s].req),
                         slots[s].calls \o ph.calls, TRUE, ph.err, ph.val, reply)]

CreateUOM_Check(s, req, fault) ==
    /\ Accept(s)
    /\ LET ph == uom_CreateHandler_Check(uomTable, CreateUOM_Command(req), fault)
       IN Begin(s, "CreateUOM", req, ph, UomReply(ph, "UOM created successfully"), "checked")
    /\ UNCHANGED <<uomTable, paramTable, pin, pout, limiter, allowing>>

CreateUOM_Persist(s, fault) ==
    /\ At(s, "CreateUOM", "checked")
    /\ LET ph == uom_CreateHandler_Persist(uomTable, CreateUOM_Command(Deref(slots[s].req)),
                                           Deref(slots[s].local), fault, now)
       IN /\ Resume(s, ph, UomReply(ph, "UOM created successfully"))
          /\ uomTable' = ph.table
    /\ UNCHANGED <<paramTable, now, issued, pin, pout, limiter, allowing>>

GetUOM(s, req, fault) ==
    /\ Accept(s)
    /\ LET ph == uom_GetHandler_Handle(uomTable, [UOMCode |-> req.uom_code], fault)
       IN Begin(s, "GetUOM", req, ph, UomReply(ph, "UOM retrieved successfully"), "done")
    /\ UNCHANGED <<uomTable, paramTable, pin, pout, limiter, allowing>>

ListUOMs_Count(s, req, fault) ==
    /\ Accept(s)
    /\ LET ph == uom_ListHandler_Count(uomTable, ListUOMs_Query(req), fault)
       IN Begin(s, "ListUOMs", req, ph, ListUOMs_Reply(req, ph), "counted")
    /\ UNCHANGED <<uomTable, paramTable, pin, pout, limiter, allowing>>

ListUOMs_Data(s, fault) ==
    /\ At(s, "ListUOMs", "counted")
    /\ LET ph == uom_ListHandler_Data(uomTable, Deref(slots[s].local), fault)
       IN Resume(s, ph, ListUOMs_Reply(Deref(slots[s].req), ph))
    /\ UNCHANGED <<uomTable, paramTable, now, issued, pin, pout, limiter, allowing>>

UpdateUOM_Load(s, req, fault) ==
    /\ Accept(s)
    /\ LET ph == uom_UpdateHandler_Load(uomTable, UpdateUOM_Command(req), fault)
       IN Begin(s, "UpdateUOM", req, ph, UomReply(ph, "UOM updated successfully"), "loaded")
    /\ UNCHANGED <<uomTable, paramTable, pin, pout, limiter, allowing>>

UpdateUOM_Persist(s, fault) ==
    /\ At(s, "UpdateUOM", "loaded")
    /\ LET ph == uom_UpdateHandler_Persist(uomTable, UpdateUOM_Command(Deref(slots[s].req)),
                                           Deref(slots[s].local), fault, now)
       IN /\ Resume(s, ph, UomReply(ph, "UOM updated successfully"))
          /\ uomTable' = ph.table
    /\ UNCHANGED <<paramTable, now, issued, pin, pout, limiter, allowing>>

DeleteUOM(s, req, fault) ==
    /\ Accept(s)
    /\ LET ph == uom_DeleteHandler_Handle(uomTable, [UOMCode |-> req.uom_code], fault)
       IN /\ Begin(s, "DeleteUOM", req, ph, UomReply(ph, "UOM deleted successfully"), "done")
          /\ uomTable' = ph.table
          /\ paramTable' = OnDeleteSetNull(paramTable, uomTable, ph.table)
    /\ UNCHANGED <<pin, pout, limiter, allowing>>

CreateParameter_Rejected(s, req, violations) ==
    /\ Accept(s)
    /\ ~IsNil(ValidationHelper_Validate(violations))
    /\ slots' = [slots EXCEPT ![s] =
                    Finished("CreateParameter", req, <<>>, FALSE, Nil, Nil,
                             Reply(Deref(ValidationHelper_Validate(violations)), Nil, Nil))]
    /\ UNCHANGED <<uomTable, paramTable, pin, pout, limiter, allowing>>

CreateParameter_Check(s, req, fault) ==
    /\ Accept(s)
    /\ LET ph == parameter_CreateHandler_Check(paramTable, CreateParameter_Command(req), fault)
       IN Begin(s, "CreateParameter", req, ph,
                ParamReply(ph, "Parameter created successfully"), "checked")
    /\ UNCHANGED <<uomTable, paramTable, pin, pout, limiter, allowing>>

CreateParameter_Persist(s, fault) ==
    /\ At(s, "CreateParameter", "checked")
    /\ LET ph == parameter_CreateHandler_Persist(paramTable, uomTable,
                     CreateParameter_Command(Deref(slots[s].req)),
                     Deref(slots[s].local), fault, now)
       IN /\ Resume(s, ph, ParamReply(ph, "Parameter created successfully"))
          /\ paramTable' = ph.table
    /\ UNCHANGED <<uomTable, now, issued, pin, pout, limiter, allowing>>

GetParameter(s, req, fault) ==
    /\ Accept(s)
    /\ LET ph == parameter_GetHandler_Handle(paramTable,
                     [ParameterCode |-> req.parameter_code], fault)
       IN Begin(s, "GetParameter", req, ph,
                ParamReply(ph, "Parameter retrieved successfully"), "done")
    /\ UNCHANGED <<uomTable, paramTable, pin, pout, limiter, allowing>>

ListParameters_Count(s, req, fault) ==
    /\ Accept(s)
    /\ LET ph == parameter_ListHandler_Count(paramTable, ListParameters_Query(req), fault)
       IN Begin(s, "ListParameters", req, ph, ListParameters_Reply(req, ph), "counted")
    /\ UNCHANGED <<uomTable, paramTable, pin, pout, limiter, allowing>>

ListParameters_Data(s, fault) ==
    /\ At(s, "ListParameters", "counted")
    /\ LET ph == parameter_ListHandler_Data(paramTable, Deref(slots[s].local), fault)
       IN Resume(s, ph, ListParameters_Reply(Deref(slots[s].req), ph))
    /\ UNCHANGED <<uomTable, paramTable, now, issued, pin, pout, limiter, allowing>>

UpdateParameter_Load(s, req, fault) ==
    /\ Accept(s)
    /\ LET ph == parameter_UpdateHandler_Load(paramTable, UpdateParameter_Command(req), fault)
       IN Begin(s, "UpdateParameter", req, ph,
                ParamReply(ph, "Parameter updated successfully"), "loaded")
    /\ UNCHANGED <<uomTable, paramTable, pin, pout, limiter, allowing>>

UpdateParameter_Persist(s, fault) ==
    /\ At(s, "UpdateParameter", "loaded")
    /\ LET ph == parameter_UpdateHandler_Persist(paramTable, uomTable,
                     UpdateParameter_Command(Deref(slots[s].req)),
                     Deref(slots[s].local), fault, now)
       IN /\ Resume(s, ph, ParamReply(ph, "Parameter updated successfully"))
          /\ paramTable' = ph.table
    /\ UNCHANGED <<uomTable, now, issued, pin, pout, limiter, allowing>>

DeleteParameter(s, req, fault) ==
    /\ Accept(s)
    /\ LET ph == parameter_DeleteHandler_Handle(paramTable,
                     [ParameterCode |-> req.parameter_code], fault)
       IN /\ Begin(s, "DeleteParameter", req, ph,
                   ParamReply(ph, "Parameter deleted successfully"), "done")
          /\ paramTable' = ph.table
    /\ UNCHANGED <<uomTable, pin, pout, limiter, allowing>>

Next ==
    \/ \E s \in Slots, fault \in Faults :
        \/ \E req \in CreateUOMRequests : CreateUOM_Check(s, req, fault)
        \/ CreateUOM_Persist(s, fault)
        \/ \E req \in GetUOMRequests : GetUOM(s, req, fault)
        \/ \E req \in ListUOMsRequests : ListUOMs_Count(s, req, fault)
        \/ ListUOMs_Data(s, fault)
        \/ \E req \in UpdateUOMRequests : UpdateUOM_Load(s, req, fault)
        \/ UpdateUOM_Persist(s, fault)
        \/ \E req \in DeleteUOMRequests : DeleteUOM(s, req, fault)
        \/ \E req \in CreateParameterRequests : CreateParameter_Check(s, req, fault)
        \/ CreateParameter_Persist(s, fault)
        \/ \E req \in GetParameterRequests : GetParameter(s, req, fault)
        \/ \E req \in ListParametersRequests : ListParameters_Count(s, req, fault)
        \/ ListParameters_Data(s, fault)
        \/ \E req \in UpdateParameterRequests : UpdateParameter_Load(s, req, fault)
        \/ UpdateParameter_Persist(s, fault)
        \/ \E req \in DeleteParameterRequests : DeleteParameter(s, req, fault)
    \/ \E s \in Slots, req \in RejectableRequests, violations \in ValidateOutcomes :
        CreateParameter_Rejected(s, req, violations)

Spec == Init /\ [][Next]_vars

-----------------------------------------------------------------------------
(* Pure functions applied to enumerated inputs                             *)

ErrMarshal ==
    Wrap("fmt.wrapError", "failed to marshal allowed_values: json: unsupported value",
         NewError("json.UnsupportedValueError", "json: unsupported value"))
WrappedUomNotFound ==
    Wrap("fmt.wrapError.uom", "get uom: uom not found", uom_ErrNotFound)
WrappedParameterNotFound ==
    Wrap("fmt.wrapError.parameter", "get parameter: parameter not found",
         parameter_ErrNotFound)

UomDomainErrors ==
    { uom_ErrNotFound, uom_ErrAlreadyExists, uom_ErrEmptyName,
      uom_ErrEmptyCreatedBy, uom_ErrInvalidUOMCode, uom_ErrInvalidCategory }

ParameterDomainErrors ==
    { parameter_ErrNotFound, parameter_ErrAlreadyExists, parameter_ErrEmptyName,
      parameter_ErrEmptyCreatedBy, parameter_ErrInvalidCode,
      parameter_ErrInvalidCategory, parameter_ErrInvalidDataType,
      parameter_ErrMinGreaterThanMax, parameter_ErrDropdownNoOptions }

StorageErrors ==
    { ErrBadConn, ErrCanceled, ErrUniqueViolation, ErrForeignKeyViolation,
      ErrInvalidRowCount, ErrMarshal }

AllErrors ==
    UomDomainErrors \cup ParameterDomainErrors \cup StorageErrors
    \cup { WrappedUomNotFound, WrappedParameterNotFound }

\* both translators applied to two errors
ApplyTranslators(e1, e2) ==
    /\ pin' = Some([fn |-> "translate", e1 |-> e1, e2 |-> e2])
    /\ pout' = Some([uom1 |-> errorToBaseResponse(e1), uom2 |-> errorToBaseResponse(e2),
                     par1 |-> paramErrorToBaseResponse(e1),
                     par2 |-> paramErrorToBaseResponse(e2)])
    /\ UNCHANGED <<uomTable, paramTable, now, slots, issued, limiter, allowing>>

\* Offset() and Limit() of a ListFilter
ApplyListFilter(page, pageSize) ==
    /\ pin' = Some([fn |-> "filter", Page |-> page, PageSize |-> pageSize])
    /\ pout' = Some([offset |-> ListFilter_Offset([Page |-> page, PageSize |-> pageSize]),
                     limit |-> ListFilter_Limit([Page |-> page, PageSize |-> pageSize])])
    /\ UNCHANGED <<uomTable, paramTable, now, slots, issued, limiter, allowing>>

\* the values of the three wire enums, and one no switch names
PbEnums ==
    { "UOM_CATEGORY_UNSPECIFIED", "UOM_CATEGORY_WEIGHT", "UOM_CATEGORY_VOLUME",
      "UOM_CATEGORY_QUANTITY", "UOM_CATEGORY_LENGTH",
      "PARAMETER_CATEGORY_UNSPECIFIED", "PARAMETER_CATEGORY_MACHINE",
      "PARAMETER_CATEGORY_MATERIAL", "PARAMETER_CATEGORY_QUALITY",
      "PARAMETER_CATEGORY_OUTPUT", "PARAMETER_CATEGORY_PROCESS",
      "PARAMETER_DATA_TYPE_UNSPECIFIED", "PARAMETER_DATA_TYPE_NUMERIC",
      "PARAMETER_DATA_TYPE_TEXT", "PARAMETER_DATA_TYPE_BOOLEAN",
      "PARAMETER_DATA_TYPE_DROPDOWN", "UOM_CATEGORY_99" }

\* the domain literals, and strings that are none of them
EnumWords ==
    { "WEIGHT", "VOLUME", "QUANTITY", "LENGTH",
      "MACHINE", "MATERIAL", "QUALITY", "OUTPUT", "PROCESS",
      "NUMERIC", "TEXT", "BOOLEAN", "DROPDOWN", "", "weight", "INVALID" }

\* the six mapping functions applied to a wire enum and to a string, each
\* followed by its opposite; the constructors applied to the strings produced
ApplyEnumMaps(e, w) ==
    /\ pin' = Some([fn |-> "enum", e |-> e, w |-> w])
    /\ pout' = Some(
         [uomCategory |->
            [str |-> pbCategoryToString(e),
             back |-> stringToPbCategory(pbCategoryToString(e)),
             new |-> uom_NewCategory(pbCategoryToString(e)),
             pb |-> stringToPbCategory(w),
             forth |-> pbCategoryToString(stringToPbCategory(w))],
          parameterCategory |->
            [str |-> pbParamCategoryToString(e),
             back |-> stringToPbParamCategory(pbParamCategoryToString(e)),
             new |-> parameter_NewCategory(pbParamCategoryToString(e)),
             pb |-> stringToPbParamCategory(w),
             forth |-> pbParamCategoryToString(stringToPbParamCategory(w))],
          dataType |->
            [str |-> pbDataTypeToString(e),
             back |-> stringToPbDataType(pbDataTypeToString(e)),
             new |-> parameter_NewDataType(pbDataTypeToString(e)),
             pb |-> stringToPbDataType(w),
             forth |-> pbDataTypeToString(stringToPbDataType(w))]])
    /\ UNCHANGED <<uomTable, paramTable, now, slots, issued, limiter, allowing>>

\* the Validation interceptor.  Text is a sequence of pieces: words, " ", ":"
\* and the marker "validation error:".
Marker == "validation error:"

\* strings.Index for a one-piece needle: the first position, from 0, or -1
RECURSIVE IndexFrom(_, _, _)
IndexFrom(text, piece, i) ==
    IF i > Len(text) THEN -1
    ELSE IF text[i] = piece THEN i - 1
    ELSE IndexFrom(text, piece, i + 1)
strings_Index(text, piece) == IndexFrom(text, piece, 1)

\* Go's text[lo:hi]
Slice(text, lo, hi) == SubSeq(text, lo + 1, hi)

RECURSIVE strings_TrimSpace(_)
strings_TrimSpace(text) ==
    IF text = <<>> THEN text
    ELSE IF Head(text) = " " THEN strings_TrimSpace(Tail(text))
    ELSE IF text[Len(text)] = " " THEN strings_TrimSpace(SubSeq(text, 1, Len(text) - 1))
    ELSE text

RECURSIVE strings_Split(_, _)
strings_Split(text, piece) ==
    LET i == strings_Index(text, piece)
    IN IF i < 0 THEN <<text>>
       ELSE <<Slice(text, 0, i)>> \o strings_Split(Slice(text, i + 1, Len(text)), piece)

ValidationError(field, message) == [field |-> field, message |-> message]

\* the loop of parseErrorMessage over parts[1:]
RECURSIVE ParseParts(_)
ParseParts(parts) ==
    IF parts = <<>> THEN <<>>
    ELSE LET part == strings_TrimSpace(Head(parts))
             colonIdx == strings_Index(part, ":")
         IN (IF part = <<>> THEN <<>>
             ELSE IF colonIdx > 0
             THEN <<ValidationError(strings_TrimSpace(Slice(part, 0, colonIdx)),
                                    strings_TrimSpace(Slice(part, colonIdx + 1, Len(part))))>>
             ELSE <<ValidationError(<<"unknown">>, part)>>)
            \o ParseParts(Tail(parts))

\* variant: a message that yields no entry yields none
parseErrorMessage_NoFallback(errMsg) ==
    IF strings_Index(errMsg, Marker) >= 0
    THEN ParseParts(Tail(strings_Split(errMsg, Marker)))
    ELSE <<>>

parseErrorMessage(errMsg) ==
    LET validationErrors ==
            IF strings_Index(errMsg, Marker) >= 0
            THEN ParseParts(Tail(strings_Split(errMsg, Marker)))
            ELSE <<>>
    IN IF Len(validationErrors) = 0 THEN <<ValidationError(<<"request">>, errMsg)>>
       ELSE validationErrors

\* one violation: its FieldDescriptor's name or none, its Proto's message or
\* none, and its String()
Violation(fieldDescriptor, proto, str) ==
    [FieldDescriptor |-> fieldDescriptor, Proto |-> proto, String |-> str]

parseValidationError(ve) ==
    [i \in 1..Len(ve.Violations) |->
        LET violation == ve.Violations[i]
            field == IF ~IsNil(violation.FieldDescriptor)
                     THEN Deref(violation.FieldDescriptor) ELSE <<>>
            message == IF ~IsNil(violation.Proto) THEN Deref(violation.Proto) ELSE <<>>
        IN ValidationError(field, IF message = <<>> THEN violation.String ELSE message)]

\* errors.As(err, &validationErr): the first *ValidationError of the chain
RECURSIVE errors_As(_)
errors_As(err) ==
    IF err.type = "ValidationError" THEN Some(err)
    ELSE IF err.type = "wrapError" THEN errors_As(err.inner)
    ELSE Nil

parseProtovalidateError(err) ==
    IF ~IsNil(errors_As(err)) THEN parseValidationError(Deref(errors_As(err)))
    ELSE parseErrorMessage(err.Error)

\* json.Marshal of a BaseResponse: every field is tagged omitempty, so a field
\* holding its zero value is left out
OmitEmpty(object, zero) == {kv \in object : kv[2] # zero[kv[1]]}
json_Marshal(base) ==
    OmitEmpty(
        { <<"status_code", base.status_code>>, <<"is_success", base.is_success>>,
          <<"message", base.message>>,
          <<"validation_errors",
            [i \in 1..Len(base.validation_errors) |->
                OmitEmpty({ <<"field", base.validation_errors[i].field>>,
                            <<"message", base.validation_errors[i].message>> },
                          [field |-> <<>>, message |-> <<>>])]>> },
        [status_code |-> "", is_success |-> FALSE, message |-> "",
         validation_errors |-> <<>>])

status_Error(code, msg) == [code |-> code, message |-> msg]

\* what the interceptor did: the requests it passed to the handler, and the
\* response and error it returned
Intercepted(forwarded, resp, err) == [forwarded |-> forwarded, resp |-> resp, err |-> err]

\* interceptors.Validation; verr is what validator.Validate returns for the
\* request and handled what the handler returns if it is called
Validation(req, verr, handled) ==
    IF ~req.isProto THEN Intercepted(<<req>>, handled.resp, handled.err)
    ELSE IF ~IsNil(verr)
    THEN Intercepted(<<>>, Nil,
            Some(status_Error("InvalidArgument",
                json_Marshal(BaseResponse("400", FALSE, "Validation failed",
                                          parseProtovalidateError(Deref(verr)))))))
    ELSE Intercepted(<<req>>, handled.resp, handled.err)

\* errors validator.Validate may return: a ValidationError with one or two
\* violations, bare or wrapped, and errors of other types with their text
FieldViolation ==
    Violation(Some(<<"uom_code">>), Some(<<"value", " ", "is", " ", "required">>),
              <<"uom_code", ":", " ", "value", " ", "is", " ", "required">>)
BareViolation == Violation(Nil, Nil, <<"message", " ", "is", " ", "invalid">>)
UntoldViolation == Violation(Some(<<"uom_name">>), Some(<<>>), <<"uom_name", ":", " ", "min_len">>)
ValidationErrors ==
    { [type |-> "ValidationError", Violations |-> v] :
        v \in { <<FieldViolation>>, <<BareViolation>>, <<UntoldViolation>>,
                <<FieldViolation, BareViolation>>, <<UntoldViolation, FieldViolation>> } }
ErrorTexts ==
    { <<"compilation", " ", "error">>, <<>>,
      <<Marker, " ", "uom_code", ":", " ", "required">>,
      <<Marker, " ", "required">>,
      <<Marker, ":", "required">>,
      <<Marker, " ">>,
      <<Marker, " ", "a", ":", "b", Marker, " ", "c", ":">>,
      <<"runtime", " ", Marker, "a", " ", ":", "b", ":", "c">> }
ValidateErrors ==
    ValidationErrors
    \cup { [type |-> "wrapError", inner |-> e] : e \in ValidationErrors }
    \cup { [type |-> "RuntimeError", Error |-> text] : text \in ErrorTexts }
OptValidateErrors == {Nil} \cup {Some(e) : e \in ValidateErrors}

InterceptedRequests ==
    { [isProto |-> TRUE, method |-> "CreateUOM", uom_code |-> KG],
      [isProto |-> TRUE, method |-> "GetUOM", uom_code |-> <<>>],
      [isProto |-> FALSE, method |-> "Health", uom_code |-> <<>>] }
HandlerOutcomes ==
    { [resp |-> Some("created"), err |-> Nil], [resp |-> Nil, err |-> Some("Internal")] }

\* one request passing through the interceptor
CallValidation(req, verr, handled) ==
    /\ pin' = Some([fn |-> "Validation", req |-> req, verr |-> verr, handled |-> handled])
    /\ pout' = Some(Validation(req, verr, handled))
    /\ UNCHANGED <<uomTable, paramTable, now, slots, issued, limiter, allowing>>

NextPure ==
    \/ \E e1 \in AllErrors, e2 \in AllErrors : ApplyTranslators(e1, e2)
    \/ \E page \in -1..MaxPage, pageSize \in -2..MaxPageSize : ApplyListFilter(page, pageSize)
    \/ \E e \in PbEnums, w \in EnumWords : ApplyEnumMaps(e, w)
    \/ \E req \in InterceptedRequests, verr \in OptValidateErrors,
          handled \in HandlerOutcomes : CallValidation(req, verr, handled)

SpecPure == Init /\ [][NextPure]_vars

-----------------------------------------------------------------------------
(* The entity methods on their own: each step calls one method of an       *)
(* entity held in memory, with every argument drawn from a small set. The  *)
(* clock reading that time.Now() returns inside the method is an input.    *)

MaxValue == 2
MaxClock == 2

OptValues == {Nil} \cup {Some(v) : v \in 0..MaxValue}
ValueLists == {<<>>, <<"A">>, <<"B", "A">>}
DataTypes == {"NUMERIC", "TEXT", "BOOLEAN", "DROPDOWN"}

\* a parameter in memory, built by NewParameter or loaded by the repository
ParameterWith(dataType, minValue, maxValue, allowedValues, updatedAt) ==
    parameter_Reconstitute(RPM, "Speed", "MACHINE", dataType, Nil, minValue, maxValue,
                           allowedValues, FALSE, Nil, TRUE, 1, "system", updatedAt,
                           IF IsNil(updatedAt) THEN Nil ELSE Some("editor"))

Ordered(minValue, maxValue) ==
    IsNil(minValue) \/ IsNil(maxValue) \/ Deref(minValue) <= Deref(maxValue)

\* the receivers of the calls: parameters and UOMs as NewParameter, NewUOM
\* or the repository leave them in memory
BoundedParameters ==
    {ParameterWith("NUMERIC", b[1], b[2], <<>>, Nil) :
        b \in {b \in OptValues \X OptValues : Ordered(b[1], b[2])}}

ListedParameters ==
    {ParameterWith(dt, Nil, Nil, av, Nil) : dt \in DataTypes, av \in {<<>>, <<"A", "B">>}}

ApplySetNumericConstraints(p, minVal, maxVal) ==
    /\ pin' = Some([fn |-> "SetNumericConstraints", self |-> p,
                    minVal |-> minVal, maxVal |-> maxVal])
    /\ pout' = Some(parameter_SetNumericConstraints(p, minVal, maxVal))
    /\ UNCHANGED <<uomTable, paramTable, now, slots, issued, limiter, allowing>>

ApplySetAllowedValues(p, values) ==
    /\ pin' = Some([fn |-> "SetAllowedValues", self |-> p, values |-> values])
    /\ pout' = Some(parameter_SetAllowedValues(p, values))
    /\ UNCHANGED <<uomTable, paramTable, now, slots, issued, limiter, allowing>>

\* readings of the wall clock: time.Now() promises no order between the
\* reading taken by one call and a timestamp taken earlier, by this process
\* or by the one that wrote the row
Clock == 0..MaxClock
OptClock == {Nil} \cup {Some(t) : t \in 1..MaxClock}

UomWith(isBaseUOM, updatedAt) ==
    uom_Reconstitute(MTR, "Meter", "LENGTH", isBaseUOM, 1, "system", updatedAt,
                     IF IsNil(updatedAt) THEN Nil ELSE Some("editor"))

StampedUoms == {UomWith(base, ua) : base \in BOOLEAN, ua \in OptClock}
StampedParameters == {ParameterWith("NUMERIC", Some(1), Nil, <<>>, ua) : ua \in OptClock}

Applyuom_Update(u, name, updatedBy, t) ==
    /\ pin' = Some([fn |-> "uom.Update", self |-> u, name |-> name,
                    updatedBy |-> updatedBy, t |-> t])
    /\ pout' = Some(uom_Update(u, name, "VOLUME", TRUE, updatedBy, t))
    /\ UNCHANGED <<uomTable, paramTable, now, slots, issued, limiter, allowing>>

Applyparameter_Update(p, name, updatedBy, t) ==
    /\ pin' = Some([fn |-> "parameter.Update", self |-> p, name |-> name,
                    updatedBy |-> updatedBy, t |-> t])
    /\ pout' = Some(parameter_Update(p, name, "QUALITY", "TEXT", updatedBy, t))
    /\ UNCHANGED <<uomTable, paramTable, now, slots, issued, limiter, allowing>>

Applyuom_SetAsBaseUOM(u) ==
    /\ pin' = Some([fn |-> "uom.SetAsBaseUOM", self |-> u])
    /\ pout' = Some(Mutated(Nil, uom_SetAsBaseUOM(u)))
    /\ UNCHANGED <<uomTable, paramTable, now, slots, issued, limiter, allowing>>

\* the setters of Parameter that return nothing
Setters == {"SetUOM", "SetDescription", "SetMandatory", "Activate", "Deactivate"}

ApplySetter(fn, p, uom, desc, mandatory) ==
    /\ fn \in Setters
    /\ pin' = Some([fn |-> fn, self |-> p])
    /\ pout' = Some(Mutated(Nil,
                  CASE fn = "SetUOM" -> parameter_SetUOM(p, uom)
                    [] fn = "SetDescription" -> parameter_SetDescription(p, desc)
                    [] fn = "SetMandatory" -> parameter_SetMandatory(p, mandatory)
                    [] fn = "Activate" -> parameter_Activate(p)
                    [] fn = "Deactivate" -> parameter_Deactivate(p)))
    /\ UNCHANGED <<uomTable, paramTable, now, slots, issued, limiter, allowing>>

\* a code of n characters: Z followed by nines
Run(n) == [i \in 1..n |-> IF i = 1 THEN "Z" ELSE "9"]

CodeInputs ==
    { <<>>, <<"A">>, KG, <<"K", "_", "9">>, LowerKg, <<"K", "g">>, <<"1", "K", "G">>,
      <<"_", "K">>, <<" ", "K", "G">>, <<"K", "G", " ">>,
      Run(UOMCodeMaxLen), Run(UOMCodeMaxLen + 1),
      Run(ParameterCodeMaxLen), Run(ParameterCodeMaxLen + 1) }

WordInputs ==
    { "WEIGHT", "VOLUME", "QUANTITY", "LENGTH",
      "MACHINE", "MATERIAL", "QUALITY", "OUTPUT", "PROCESS",
      "NUMERIC", "TEXT", "BOOLEAN", "DROPDOWN",
      "", "weight", "Weight", " WEIGHT", "WEIGHT ", "machine", "dropdown",
      "UOM_CATEGORY_WEIGHT", "INVALID" }

\* the five value-object constructors applied to a code and to a word
ApplyConstructors(code, word) ==
    /\ pin' = Some([fn |-> "New", code |-> code, word |-> word])
    /\ pout' = Some([uomCode |-> uom_NewUOMCode(code),
                     parameterCode |-> parameter_NewParameterCode(code),
                     uomCategory |-> uom_NewCategory(word),
                     parameterCategory |-> parameter_NewCategory(word),
                     dataType |-> parameter_NewDataType(word)])
    /\ UNCHANGED <<uomTable, paramTable, now, slots, issued, limiter, allowing>>

\* NewUOM and NewParameter applied to the same name and createdBy
ApplyNewEntity(name, createdBy, category, dataType, t) ==
    /\ pin' = Some([fn |-> "NewEntity", name |-> name, createdBy |-> createdBy,
                    category |-> category, dataType |-> dataType, t |-> t])
    /\ pout' = Some([uom |-> uom_NewUOM(KG, name, category.uom, createdBy, t),
                     parameter |-> parameter_NewParameter(PH, name, category.parameter,
                                                          dataType, createdBy, t)])
    /\ UNCHANGED <<uomTable, paramTable, now, slots, issued, limiter, allowing>>

NextEntity ==
    \/ \E p \in BoundedParameters, mn \in OptValues, mx \in OptValues :
          ApplySetNumericConstraints(p, mn, mx)
    \/ \E p \in ListedParameters, values \in ValueLists : ApplySetAllowedValues(p, values)
    \/ \E u \in StampedUoms, name \in {"", "Metre"}, by \in {"", "admin"}, t \in Clock :
          Applyuom_Update(u, name, by, t)
    \/ \E p \in StampedParameters, name \in {"", "Pace"}, by \in {"", "admin"}, t \in Clock :
          Applyparameter_Update(p, name, by, t)
    \/ \E u \in StampedUoms : Applyuom_SetAsBaseUOM(u)
    \/ \E fn \in Setters, p \in StampedParameters, uom \in {Nil, Some(KG)},
          desc \in {Nil, Some("per minute")}, mandatory \in BOOLEAN :
          ApplySetter(fn, p, uom, desc, mandatory)
    \/ \E code \in CodeInputs, word \in WordInputs : ApplyConstructors(code, word)
    \/ \E name \in {"", "Kilogram"}, createdBy \in {"", "admin"},
          category \in {[uom |-> "WEIGHT", parameter |-> "QUALITY"],
                        [uom |-> "LENGTH", parameter |-> "MACHINE"]},
          dataType \in DataTypes, t \in Clock :
          ApplyNewEntity(name, createdBy, category, dataType, t)

SpecEntity == Init /\ [][NextEntity]_vars

-----------------------------------------------------------------------------
(* The cache helper.  A cache is a value of one of the implementations of  *)
(* the Cache interface; the Redis server behind a RedisCache is a store of  *)
(* marshalled values by key, and each round trip to it may fail.            *)

redis_Nil == NewError("redis.Error", "redis: nil")
ErrSyntax == NewError("json.SyntaxError", "invalid character")
ErrStub == NewError("errors.errorString", "cache unavailable")

\* the zero value of the cached type, and what a failed decoding may leave
Zero == 0
Partial == -1

\* json.Marshal / json.Unmarshal of a value of the cached type
Marshal(value) == [json |-> value]
Corrupt == [bytes |-> "{"]
Unmarshal(data, dest, dirty) ==
    IF data = Corrupt THEN [err |-> Some(ErrSyntax), dest |-> IF dirty THEN Partial ELSE dest]
    ELSE [err |-> Nil, dest |-> data.json]

\* redis.Client.Get: the bytes of the key, unmarshalled into dest
redis_Client_Get(rdb, key, dest, fault, dirty) ==
    IF ~IsNil(fault) THEN [err |-> fault, dest |-> dest]
    ELSE IF key \notin DOMAIN rdb THEN [err |-> Some(redis_Nil), dest |-> dest]
    ELSE Unmarshal(rdb[key], dest, dirty)

\* redis.Client.Set: the value marshalled and stored
redis_Client_Set(rdb, key, value, fault) ==
    IF ~IsNil(fault) THEN [err |-> fault, rdb |-> rdb]
    ELSE [err |-> Nil,
          rdb |-> [k \in DOMAIN rdb \cup {key} |-> IF k = key THEN Marshal(value) ELSE rdb[k]]]

\* the implementations of Cache: a *RedisCache (nil, or with a client that is
\* nil or connected to a server), a *NoOpCache, and a stand-in whose Get and
\* Set answer what they are told to
NewRedisCache(client, prefix) ==
    IF IsNil(client) THEN [type |-> "RedisCache", self |-> Nil]
    ELSE [type |-> "RedisCache", self |-> Some([client |-> client, prefix |-> prefix])]
RedisCacheWithoutClient == [type |-> "RedisCache", self |-> Some([client |-> Nil, prefix |-> "m"])]
NewNoOpCache == [type |-> "NoOpCache"]
StubCache(found, err, dest) == [type |-> "stub", found |-> found, err |-> err, dest |-> dest]

RedisCache_Get(c, key, dest, fault, dirty) ==
    IF IsNil(c.self) \/ IsNil(Deref(c.self).client)
    THEN [found |-> FALSE, err |-> Nil, dest |-> dest]
    ELSE LET got == redis_Client_Get(Deref(Deref(c.self).client),
                                     <<Deref(c.self).prefix, key>>, dest, fault, dirty)
         IN IF ~IsNil(got.err) THEN [found |-> FALSE, err |-> Nil, dest |-> got.dest]
            ELSE [found |-> TRUE, err |-> Nil, dest |-> got.dest]

RedisCache_Set(c, key, value, fault) ==
    IF IsNil(c.self) \/ IsNil(Deref(c.self).client) THEN [err |-> Nil, cache |-> c]
    ELSE LET set == redis_Client_Set(Deref(Deref(c.self).client),
                                     <<Deref(c.self).prefix, key>>, value, fault)
         IN [err |-> set.err,
             cache |-> [c EXCEPT !.self = Some([Deref(c.self) EXCEPT !.client = Some(set.rdb)])]]

NoOpCache_Get(c, key, dest) == [found |-> FALSE, err |-> Nil, dest |-> dest]
NoOpCache_Set(c, key, value) == [err |-> Nil, cache |-> c]

\* cache.Get and cache.Set through the interface
Cache_Get(cache, key, dest, fault, dirty) ==
    CASE cache.type = "RedisCache" -> RedisCache_Get(cache, key, dest, fault, dirty)
      [] cache.type = "NoOpCache" -> NoOpCache_Get(cache, key, dest)
      [] cache.type = "stub" -> [found |-> cache.found, err |-> cache.err, dest |-> cache.dest]

Cache_Set(cache, key, value, fault) ==
    CASE cache.type = "RedisCache" -> RedisCache_Set(cache, key, value, fault)
      [] cache.type = "NoOpCache" -> NoOpCache_Set(cache, key, value)
      [] cache.type = "stub" -> [err |-> fault, cache |-> cache]

\* what Cached returns, how often it called fn, cache.Get's and cache.Set's
\* answers, and the cache afterwards
CachedResult(result, err, fnCalls, got, set, cache) ==
    [result |-> result, err |-> err, fnCalls |-> fnCalls, got |-> got, set |-> set,
     cache |-> cache]

\* variant: a value reported found is returned whatever the error
Cached_FoundOnly(cache, key, fn, getFault, setFault, dirty) ==
    LET got == Cache_Get(cache, key, Zero, getFault, dirty)
        set == Cache_Set(cache, key, fn.val, setFault)
    IN IF got.found THEN CachedResult(got.dest, Nil, 0, got, Nil, cache)
       ELSE IF ~IsNil(fn.err) THEN CachedResult(fn.val, fn.err, 1, got, Nil, cache)
       ELSE CachedResult(fn.val, Nil, 1, got, Some(set.err), set.cache)

\* cache.Cached; fn is what the wrapped function returns when it is called
Cached(cache, key, fn, getFault, setFault, dirty) ==
    LET got == Cache_Get(cache, key, Zero, getFault, dirty)
        set == Cache_Set(cache, key, fn.val, setFault)
    IN IF IsNil(got.err) /\ got.found THEN CachedResult(got.dest, Nil, 0, got, Nil, cache)
       ELSE IF ~IsNil(fn.err) THEN CachedResult(fn.val, fn.err, 1, got, Nil, cache)
       ELSE CachedResult(fn.val, Nil, 1, got, Some(set.err), set.cache)

\* caches a call may be given: disabled ones, a Redis-backed one whose server
\* holds nothing, a value, or bytes that do not decode, and stand-ins
EmptyRdb == [k \in {} |-> Nil]
OneRdb(data) == [k \in {<<"m", "uom">>} |-> data]
Caches ==
    { NewRedisCache(Nil, "m"), RedisCacheWithoutClient, NewNoOpCache,
      NewRedisCache(Some(EmptyRdb), "m"), NewRedisCache(Some(OneRdb(Marshal(1))), "m"),
      NewRedisCache(Some(OneRdb(Corrupt)), "m"),
      StubCache(TRUE, Some(ErrStub), 2), StubCache(FALSE, Some(ErrStub), 2),
      StubCache(TRUE, Nil, 2), StubCache(FALSE, Nil, Zero) }

\* what fn may return: a value, or an error with or without a value
FnOutcomes ==
    { [val |-> 1, err |-> Nil], [val |-> 2, err |-> Nil],
      [val |-> Zero, err |-> Some(ErrBadConn)], [val |-> 2, err |-> Some(ErrBadConn)] }

\* one call of Cached, on a cache of Caches or on the cache the call before
\* left behind
CallCached(fresh, reuse, key, fn, getFault, setFault, dirty) ==
    /\ reuse => ~IsNil(pout)
    /\ LET cache == IF reuse THEN Deref(pout).cache ELSE fresh
       IN /\ pin' = Some([fn |-> "Cached", cache |-> cache, key |-> key, call |-> fn,
                          getFault |-> getFault, setFault |-> setFault])
          /\ pout' = Some(Cached(cache, key, fn, getFault, setFault, dirty))
    /\ UNCHANGED <<uomTable, paramTable, now, slots, issued, limiter, allowing>>

\* the server drops a key whose ttl has run out
Expire(key) ==
    /\ ~IsNil(pout)
    /\ Deref(pout).cache.type = "RedisCache"
    /\ ~IsNil(Deref(pout).cache.self)
    /\ ~IsNil(Deref(Deref(pout).cache.self).client)
    /\ LET c == Deref(pout).cache
           rdb == Deref(Deref(c.self).client)
           k == <<Deref(c.self).prefix, key>>
       IN /\ k \in DOMAIN rdb
          /\ pout' = Some([Deref(pout) EXCEPT !.cache =
                 [c EXCEPT !.self = Some([Deref(c.self) EXCEPT !.client =
                     Some([j \in DOMAIN rdb \ {k} |-> rdb[j]])])]])
    /\ pin' = Some([fn |-> "Expire", key |-> key])
    /\ UNCHANGED <<uomTable, paramTable, now, slots, issued, limiter, allowing>>

NextCache ==
    \/ \E fresh \in Caches, reuse \in BOOLEAN, key \in {"uom", "param"}, fn \in FnOutcomes,
          getFault \in Faults, setFault \in Faults, dirty \in BOOLEAN :
          CallCached(fresh, reuse, key, fn, getFault, setFault, dirty)
    \/ \E key \in {"uom", "param"} : Expire(key)

SpecCache == Init /\ [][NextCache]_vars

-----------------------------------------------------------------------------
(* The rate limiter on its own.  A call of RateLimiter.Allow takes three    *)
(* steps, one per critical section: the lookup under the read lock, the     *)
(* installation under the write lock when the lookup found nothing, and     *)
(* TokenBucket.Allow under the bucket's lock.  Cleanup runs under the write *)
(* lock.  Sections under one lock do not overlap, so each is one step.      *)

InitLimiter ==
    /\ uomTable = SeedUomTable
    /\ paramTable = SeedParamTable
    /\ now = 0
    /\ slots = [s \in Slots |-> Idle]
    /\ issued = 0
    /\ pin = Nil
    /\ pout = Nil
    /\ limiter \in {NewRateLimiter(maxTokens, refillRate) :
                       maxTokens \in {Unit, MaxBurst}, refillRate \in {0, 1}}
    /\ allowing = [g \in Calls |-> NotCalled]

\* rl.mu.RLock(); bucket, exists := rl.buckets[key]; rl.mu.RUnlock()
RateLimiter_Allow_Lookup(g, key) ==
    /\ allowing[g].pc = "idle"
    /\ \A h \in Calls : h < g => allowing[h].pc # "idle"
    /\ LET exists == key \in DOMAIN limiter.buckets
       IN allowing' = [allowing EXCEPT ![g] =
             [NotCalled EXCEPT !.pc = IF exists THEN "found" ELSE "missing",
                               !.key = key,
                               !.bucket = IF exists THEN limiter.buckets[key] ELSE 0,
                               !.exists = exists,
                               !.unseen = \A a \in 1..Len(limiter.made) : limiter.made[a] # key]]
    /\ UNCHANGED <<uomTable, paramTable, now, slots, issued, pin, pout, limiter>>

\* rl.mu.Lock(); the second lookup; NewTokenBucket if still absent; rl.mu.Unlock()
RateLimiter_Allow_Install(g) ==
    /\ allowing[g].pc = "missing"
    /\ LET key == allowing[g].key
           exists == key \in DOMAIN limiter.buckets
           address == Len(limiter.heap) + 1
       IN IF exists
          THEN /\ allowing' = [allowing EXCEPT ![g].pc = "found",
                                               ![g].bucket = limiter.buckets[key],
                                               ![g].exists = TRUE]
               /\ UNCHANGED limiter
          ELSE /\ allowing' = [allowing EXCEPT ![g].pc = "found", ![g].bucket = address]
               /\ limiter' = [limiter EXCEPT
                     !.heap = Append(@, NewTokenBucket(limiter.maxTokens,
                                                       limiter.refillRate, now)),
                     !.made = Append(@, key),
                     !.buckets = [k \in DOMAIN @ \cup {key} |->
                                     IF k = key THEN address ELSE @[k]]]
    /\ UNCHANGED <<uomTable, paramTable, now, slots, issued, pin, pout>>

\* return bucket.Allow()
RateLimiter_Allow_Draw(g) ==
    /\ allowing[g].pc = "found"
    /\ LET drawn == TokenBucket_Allow(limiter.heap[allowing[g].bucket], now)
       IN /\ limiter' = [limiter EXCEPT !.heap[allowing[g].bucket] = drawn.tb]
          /\ allowing' = [allowing EXCEPT ![g].pc = "done", ![g].ok = drawn.ok,
                                          ![g].at = now]
    /\ UNCHANGED <<uomTable, paramTable, now, slots, issued, pin, pout>>

\* RateLimiter.Cleanup: buckets last refilled before now - maxAge leave the map
RateLimiter_Cleanup(maxAge) ==
    /\ LET threshold == now - maxAge
           kept == {k \in DOMAIN limiter.buckets :
                       ~(limiter.heap[limiter.buckets[k]].lastRefill < threshold)}
       IN limiter' = [limiter EXCEPT !.buckets = [k \in kept |-> @[k]]]
    /\ UNCHANGED <<uomTable, paramTable, now, slots, issued, pin, pout, allowing>>

\* a second passes
Tick ==
    /\ now < MaxClock
    /\ now' = now + 1
    /\ UNCHANGED <<uomTable, paramTable, slots, issued, pin, pout, limiter, allowing>>

NextLimiter ==
    \/ \E g \in Calls, key \in Keys : RateLimiter_Allow_Lookup(g, key)
    \/ \E g \in Calls : RateLimiter_Allow_Install(g)
    \/ \E g \in Calls : RateLimiter_Allow_Draw(g)
    \/ \E maxAge \in {0, 1} : RateLimiter_Cleanup(maxAge)
    \/ Tick

SpecLimiter == InitLimiter /\ [][NextLimiter]_vars

-----------------------------------------------------------------------------
(* Properties                                                              *)

Done(s) == slots[s].pc = "done"
IsCreate(op) == op \in {"CreateUOM", "CreateParameter"}
IsUpdate(op) == op \in {"UpdateUOM", "UpdateParameter"}
IsList(op) == op \in {"ListUOMs", "ListParameters"}
IsUomOp(op) == op \in {"CreateUOM", "GetUOM", "ListUOMs", "UpdateUOM", "DeleteUOM"}

\* the code a request carries
CodeOf(op, req) == IF IsUomOp(op) THEN req.uom_code ELSE req.parameter_code
AlreadyExistsOf(op) ==
    IF IsUomOp(op) THEN uom_ErrAlreadyExists ELSE parameter_ErrAlreadyExists
NotFoundOf(op) == IF IsUomOp(op) THEN uom_ErrNotFound ELSE parameter_ErrNotFound

\* the Invalid* error of the first value object of the request that cannot
\* be constructed, or Nil when all of them can
InvalidValueObject(op, req) ==
    IF IsList(op)
    THEN IF IsNil(req.category) THEN Nil
         ELSE IF op = "ListUOMs"
         THEN IF Deref(req.category) \in
                    {"UOM_CATEGORY_WEIGHT", "UOM_CATEGORY_VOLUME", "UOM_CATEGORY_QUANTITY",
                     "UOM_CATEGORY_LENGTH", "UOM_CATEGORY_UNSPECIFIED"}
              THEN Nil ELSE Some(uom_ErrInvalidCategory)
         ELSE IF Deref(req.category) \in
                    {"PARAMETER_CATEGORY_MACHINE", "PARAMETER_CATEGORY_MATERIAL",
                     "PARAMETER_CATEGORY_QUALITY", "PARAMETER_CATEGORY_OUTPUT",
                     "PARAMETER_CATEGORY_PROCESS", "PARAMETER_CATEGORY_UNSPECIFIED"}
              THEN Nil ELSE Some(parameter_ErrInvalidCategory)
    ELSE IF IsUomOp(op)
    THEN IF ~MatchCodePattern(req.uom_code, UOMCodeMaxLen)
         THEN Some(uom_ErrInvalidUOMCode)
         ELSE IF (IsCreate(op) \/ IsUpdate(op))
                 /\ req.uom_category \notin
                        {"UOM_CATEGORY_WEIGHT", "UOM_CATEGORY_VOLUME",
                         "UOM_CATEGORY_QUANTITY", "UOM_CATEGORY_LENGTH"}
         THEN Some(uom_ErrInvalidCategory)
         ELSE Nil
    ELSE IF ~MatchCodePattern(req.parameter_code, ParameterCodeMaxLen)
         THEN Some(parameter_ErrInvalidCode)
         ELSE IF (IsCreate(op) \/ IsUpdate(op))
                 /\ req.parameter_category \notin
                        {"PARAMETER_CATEGORY_MACHINE", "PARAMETER_CATEGORY_MATERIAL",
                         "PARAMETER_CATEGORY_QUALITY", "PARAMETER_CATEGORY_OUTPUT",
                         "PARAMETER_CATEGORY_PROCESS"}
         THEN Some(parameter_ErrInvalidCategory)
         ELSE IF (IsCreate(op) \/ IsUpdate(op))
                 /\ req.data_type \notin
                        {"PARAMETER_DATA_TYPE_NUMERIC", "PARAMETER_DATA_TYPE_TEXT",
                         "PARAMETER_DATA_TYPE_BOOLEAN", "PARAMETER_DATA_TYPE_DROPDOWN"}
         THEN Some(parameter_ErrInvalidDataType)
         ELSE Nil

\* a create request that is valid apart from, possibly, its code being taken
WellFormedCreate(op, req) ==
    /\ IsNil(InvalidValueObject(op, req))
    /\ IF op = "CreateUOM" THEN req.uom_name # ""
       ELSE /\ req.parameter_name # ""
            /\ IsNil(req.uom)
            /\ (~IsNil(req.min_value) /\ ~IsNil(req.max_value)
                    => Deref(req.min_value) <= Deref(req.max_value))
            /\ (req.data_type = "PARAMETER_DATA_TYPE_DROPDOWN"
                    => req.allowed_values # <<>>)

StoredCodes(op) == IF IsUomOp(op) THEN DOMAIN uomTable ELSE DOMAIN paramTable
SeedCodes(op) == IF IsUomOp(op) THEN DOMAIN SeedUomTable ELSE DOMAIN SeedParamTable

\* C1: two concurrent Create calls carrying the same valid code, against a
\* store that does not yet hold that code, end with exactly one success
\* while the other returns AlreadyExists, in every interleaving.
C1_ExactlyOneCreateSucceeds ==
    \A a \in Slots, b \in Slots :
        (/\ a # b
         /\ Done(a) /\ Done(b)
         /\ \A c \in Slots \ {a, b} : slots[c].pc = "idle"
         /\ IsCreate(slots[a].op) /\ slots[b].op = slots[a].op
         /\ slots[a].invoked /\ slots[b].invoked
         /\ WellFormedCreate(slots[a].op, Deref(slots[a].req))
         /\ WellFormedCreate(slots[b].op, Deref(slots[b].req))
         /\ CodeOf(slots[a].op, Deref(slots[a].req))
                = CodeOf(slots[b].op, Deref(slots[b].req))
         /\ CodeOf(slots[a].op, Deref(slots[a].req)) \notin SeedCodes(slots[a].op)
         /\ slots[a].herr # Some(ErrBadConn) /\ slots[b].herr # Some(ErrBadConn))
        => \/ /\ IsNil(slots[a].herr)
              /\ slots[b].herr = Some(AlreadyExistsOf(slots[b].op))
           \/ /\ IsNil(slots[b].herr)
              /\ slots[a].herr = Some(AlreadyExistsOf(slots[a].op))

\* C2: when a value object of the request (code, category, data type; for
\* List the supplied category) cannot be constructed, the handler returns
\* the corresponding Invalid* error and has called no repository method.
C2_InvalidValueObjectNoRepository ==
    \A s \in Slots :
        (/\ Done(s) /\ slots[s].invoked
         /\ ~IsNil(InvalidValueObject(slots[s].op, Deref(slots[s].req))))
        => /\ slots[s].herr = InvalidValueObject(slots[s].op, Deref(slots[s].req))
           /\ slots[s].calls = <<>>

C2_Witness ==
    \E s \in Slots :
        /\ Done(s) /\ slots[s].op = "CreateUOM"
        /\ Deref(slots[s].req).uom_code = LowerKg
        /\ slots[s].herr = Some(uom_ErrInvalidUOMCode)
        /\ slots[s].calls = <<>>

\* C3: a Create whose value objects are valid and whose code is stored
\* returns AlreadyExists, whatever the rest of the request, after the
\* single repository call ExistsByCode, and leaves the tables as they were.
C3_DuplicateBeforeEntity ==
    [][\A s \in Slots :
        (/\ slots[s].pc = "idle" /\ slots'[s].pc # "idle"
         /\ IsCreate(slots'[s].op) /\ slots'[s].invoked
         /\ IsNil(InvalidValueObject(slots'[s].op, Deref(slots'[s].req)))
         /\ CodeOf(slots'[s].op, Deref(slots'[s].req)) \in StoredCodes(slots'[s].op)
         /\ slots'[s].herr # Some(ErrBadConn))
        => /\ slots'[s].pc = "done"
           /\ slots'[s].herr = Some(AlreadyExistsOf(slots'[s].op))
           /\ slots'[s].calls = <<"ExistsByCode">>
           /\ uomTable' = uomTable /\ paramTable' = paramTable]_vars

C3_Witness ==
    \E s \in Slots :
        /\ Done(s) /\ slots[s].op = "CreateUOM"
        /\ Deref(slots[s].req).uom_code = MTR
        /\ Deref(slots[s].req).uom_name = ""
        /\ slots[s].herr = Some(uom_ErrAlreadyExists)
        /\ slots[s].calls = <<"ExistsByCode">>
        /\ uomTable[MTR].uom_name = "Meter"

EntityErrors ==
    { uom_ErrEmptyName, parameter_ErrEmptyName, parameter_ErrMinGreaterThanMax,
      parameter_ErrDropdownNoOptions }

\* C4: a step of an Update that does not end in success leaves both tables
\* as they were; an Update whose code is absent when it loads returns
\* NotFound without calling the repository's Update; an Update that fails
\* on an entity-level check never calls the repository's Update.
C4_FailedUpdateLeavesRow ==
    [][\A s \in Slots :
        (slots'[s] # slots[s] /\ IsUpdate(slots'[s].op))
        => /\ (slots'[s].pc # "done" \/ ~IsNil(slots'[s].herr))
                => (uomTable' = uomTable /\ paramTable' = paramTable)
           /\ (/\ slots[s].pc = "idle"
               /\ IsNil(InvalidValueObject(slots'[s].op, Deref(slots'[s].req)))
               /\ CodeOf(slots'[s].op, Deref(slots'[s].req))
                      \notin StoredCodes(slots'[s].op)
               /\ slots'[s].herr # Some(ErrBadConn))
                => /\ slots'[s].pc = "done"
                   /\ slots'[s].herr = Some(NotFoundOf(slots'[s].op))
                   /\ slots'[s].calls = <<"GetByCode">>
           /\ (slots'[s].pc = "done" /\ slots'[s].herr \in {Some(e) : e \in EntityErrors})
                => slots'[s].calls = <<"GetByCode">>]_vars

C4_Witness ==
    \E s \in Slots :
        /\ Done(s) /\ slots[s].op = "UpdateParameter"
        /\ Deref(slots[s].req).parameter_code = RPM
        /\ slots[s].herr = Some(parameter_ErrMinGreaterThanMax)
        /\ slots[s].calls = <<"GetByCode">>
        /\ paramTable[RPM] = SeedParamTable[RPM]

\* C5: every adapter call returns a nil transport error; a failed handler
\* shows as is_success = false with a non-2xx status code, a successful one
\* as is_success = true.
C5_NilTransportError ==
    \A s \in Slots :
        Done(s) =>
            /\ IsNil(Deref(slots[s].resp).transport)
            /\ ~IsNil(Deref(slots[s].resp).base)
            /\ ~IsNil(slots[s].herr)
                => /\ ~Deref(Deref(slots[s].resp).base).is_success
                   /\ Deref(Deref(slots[s].resp).base).status_code \notin {"200", "201", "204"}
            /\ (slots[s].invoked /\ IsNil(slots[s].herr))
                => Deref(Deref(slots[s].resp).base).is_success

Translating == ~IsNil(pin) /\ Deref(pin).fn = "translate"
Filtering == ~IsNil(pin) /\ Deref(pin).fn = "filter"

\* the sentinels each translator gives a status of its own
UomTranslated ==
    { uom_ErrNotFound, uom_ErrAlreadyExists, uom_ErrInvalidUOMCode,
      uom_ErrInvalidCategory, uom_ErrEmptyName }
ParameterTranslated ==
    { parameter_ErrNotFound, parameter_ErrAlreadyExists, parameter_ErrInvalidCode,
      parameter_ErrInvalidCategory, parameter_ErrInvalidDataType,
      parameter_ErrEmptyName, parameter_ErrMinGreaterThanMax,
      parameter_ErrDropdownNoOptions }
IsOneOf(err, sentinels) == \E t \in sentinels : err.id = t.id \/ err.wraps = t.id

\* C6: each translator maps NotFound to "404", AlreadyExists to "409", the
\* Invalid*, EmptyName, MinGreaterThanMax and DropdownNoOptions errors to
\* "400" and every other error to "500", always with is_success = false.
C6_TranslatorTable ==
    Translating =>
        LET e == Deref(pin).e1
            u == Deref(pout).uom1
            p == Deref(pout).par1
        IN /\ ~u.is_success /\ ~p.is_success
           /\ u.status_code =
                IF IsOneOf(e, {uom_ErrNotFound}) THEN "404"
                ELSE IF IsOneOf(e, {uom_ErrAlreadyExists}) THEN "409"
                ELSE IF IsOneOf(e, {uom_ErrInvalidUOMCode, uom_ErrInvalidCategory,
                                    uom_ErrEmptyName}) THEN "400"
                ELSE "500"
           /\ p.status_code =
                IF IsOneOf(e, {parameter_ErrNotFound}) THEN "404"
                ELSE IF IsOneOf(e, {parameter_ErrAlreadyExists}) THEN "409"
                ELSE IF IsOneOf(e, {parameter_ErrInvalidCode, parameter_ErrInvalidCategory,
                                    parameter_ErrInvalidDataType, parameter_ErrEmptyName,
                                    parameter_ErrMinGreaterThanMax,
                                    parameter_ErrDropdownNoOptions}) THEN "400"
                ELSE "500"

C6_Witness ==
    /\ Translating
    /\ Deref(pin).e1 = uom_ErrEmptyName
    /\ Deref(pout).uom1.status_code = "400"
    /\ Deref(pout).par1.status_code = "500"

\* C7: two errors that a translator does not translate get one and the same
\* envelope from it: "500", "Internal server error", nothing of the error.
C7_InternalErrorsAlike ==
    Translating =>
        LET e1 == Deref(pin).e1
            e2 == Deref(pin).e2
            internal == [status_code |-> "500", is_success |-> FALSE,
                         message |-> "Internal server error",
                         validation_errors |-> <<>>]
        IN /\ (~IsOneOf(e1, UomTranslated) /\ ~IsOneOf(e2, UomTranslated))
                => (Deref(pout).uom1 = internal /\ Deref(pout).uom2 = internal)
           /\ (~IsOneOf(e1, ParameterTranslated) /\ ~IsOneOf(e2, ParameterTranslated))
                => (Deref(pout).par1 = internal /\ Deref(pout).par2 = internal)

C7_Witness ==
    /\ Translating
    /\ Deref(pin).e1 = ErrUniqueViolation
    /\ Deref(pin).e2 = ErrBadConn
    /\ Deref(pout).par1 = Deref(pout).par2
    /\ Deref(pout).par1.message = "Internal server error"

Max2(a, b) == IF a > b THEN a ELSE b

\* C8: a List with page >= 1 and 1 <= pageSize <= 100 over N matching rows
\* returns the rows at positions (page-1)*pageSize+1 .. min(page*pageSize, N)
\* of the ascending code order, and the total N; the adapter passes them on.
C8_ListPage ==
    [][\A s \in Slots :
        (/\ slots[s].pc = "counted" /\ slots'[s].pc = "done"
         /\ Deref(slots[s].req).page >= 1
         /\ Deref(slots[s].req).page_size >= 1
         /\ Deref(slots[s].req).page_size <= 100
         /\ slots'[s].herr # Some(ErrBadConn)
         /\ Deref(slots[s].local).total
              = Cardinality(IF slots[s].op = "ListUOMs"
                            THEN UomMatching(uomTable, Deref(slots[s].local).filter)
                            ELSE ParamMatching(paramTable, Deref(slots[s].local).filter)))
        => LET isUom == slots[s].op = "ListUOMs"
               req == Deref(slots[s].req)
               M == IF isUom THEN UomMatching(uomTable, Deref(slots[s].local).filter)
                    ELSE ParamMatching(paramTable, Deref(slots[s].local).filter)
               N == Cardinality(M)
               first == (req.page - 1) * req.page_size
               n == Max2(0, Min2(req.page * req.page_size, N) - first)
               hv == Deref(slots'[s].hval)
               rows == IF isUom THEN hv.UOMs ELSE hv.Parameters
               resp == Deref(slots'[s].resp)
           IN /\ IsNil(slots'[s].herr)
              /\ hv.Total = N
              /\ Len(rows) = n
              /\ \A i \in 1..n :
                    /\ rows[i].code \in M
                    /\ Cardinality({d \in M : StrLess(d, rows[i].code)}) = first + i - 1
                    /\ rows[i] = IF isUom THEN UomRowToEntity(uomTable[rows[i].code])
                                 ELSE ParamRowToEntity(paramTable[rows[i].code])
              /\ Deref(resp.pagination).total_items = N
              /\ Len(Deref(resp.data)) = n
              /\ \A i \in 1..n :
                    Deref(resp.data)[i] = IF isUom THEN entityToProto(rows[i])
                                          ELSE paramEntityToProto(rows[i])]_vars

C8_Witness ==
    \E s \in Slots :
        /\ Done(s) /\ slots[s].op = "ListUOMs" /\ IsNil(slots[s].herr)
        /\ Deref(slots[s].req).page = 2 /\ Deref(slots[s].req).page_size = 2
        /\ Deref(slots[s].hval).Total = 3
        /\ Len(Deref(slots[s].hval).UOMs) = 1
        /\ Deref(slots[s].hval).UOMs[1].code = MTR

\* C9: Limit() is 10 when pageSize <= 0, 100 when pageSize > 100 and
\* pageSize otherwise; for page <= 0, Offset() is the offset of page 1.
C9_LimitAndOffsetDefaults ==
    Filtering =>
        LET page == Deref(pin).Page
            pageSize == Deref(pin).PageSize
        IN /\ Deref(pout).limit = IF pageSize <= 0 THEN 10
                                  ELSE IF pageSize > 100 THEN 100 ELSE pageSize
           /\ page <= 0 =>
                /\ Deref(pout).offset
                     = ListFilter_Offset([Page |-> 1, PageSize |-> pageSize])
                /\ Deref(pout).offset = 0

C9_Witness ==
    /\ Filtering
    /\ Deref(pin).Page = 0 /\ Deref(pin).PageSize = 101
    /\ Deref(pout).limit = 100 /\ Deref(pout).offset = 0

\* the least integer not below a / b, for b # 0
CeilDiv(a, b) == IF b > 0 THEN -((-a) \div b) ELSE -(a \div (-b))

\* C10: in a successful List response total_items is the handler's total
\* and total_pages is the ceiling of total_items / page_size, for every
\* total and every page size.
C10_TotalPagesIsCeiling ==
    \A s \in Slots :
        (/\ Done(s) /\ IsList(slots[s].op) /\ IsNil(slots[s].herr)
         /\ IsNil(Deref(slots[s].resp).transport))
        => LET pg == Deref(Deref(slots[s].resp).pagination)
           IN /\ pg.total_items = Deref(slots[s].hval).Total
              /\ pg.total_pages = CeilDiv(pg.total_items, Deref(slots[s].req).page_size)

-----------------------------------------------------------------------------
(* Entity methods                                                          *)

Calling(fn) == ~IsNil(pin) /\ Deref(pin).fn = fn
Returned == Deref(pout)
Receiver == Deref(pin).self

\* C11: SetNumericConstraints returns MinGreaterThanMax exactly when both
\* arguments are present and min > max, and then minValue and maxValue are
\* what they were before the call; in every other case it returns no error
\* and minValue and maxValue are exactly the arguments.
C11_SetNumericConstraints ==
    Calling("SetNumericConstraints") =>
        LET in == Deref(pin)
            refused == /\ ~IsNil(in.minVal) /\ ~IsNil(in.maxVal)
                       /\ Deref(in.minVal) > Deref(in.maxVal)
        IN  /\ (Returned.err = Some(parameter_ErrMinGreaterThanMax)) <=> refused
            /\ refused => /\ Returned.val.minValue = Receiver.minValue
                          /\ Returned.val.maxValue = Receiver.maxValue
            /\ ~refused => /\ IsNil(Returned.err)
                           /\ Returned.val.minValue = in.minVal
                           /\ Returned.val.maxValue = in.maxVal

\* a refused call on a parameter that had other bounds than the refused ones
C11_Witness ==
    /\ Calling("SetNumericConstraints")
    /\ Returned.err = Some(parameter_ErrMinGreaterThanMax)
    /\ Receiver.minValue # Deref(pin).minVal
    /\ Returned.val.minValue = Receiver.minValue

\* C12: SetAllowedValues with an empty list on a DROPDOWN parameter returns
\* DropdownNoOptions and leaves allowedValues as it was; with any other data
\* type every list is accepted, and a non-empty list is accepted for every
\* data type; an accepted list is stored in the order given.
C12_SetAllowedValues ==
    Calling("SetAllowedValues") =>
        LET values == Deref(pin).values
            refused == Receiver.dataType = "DROPDOWN" /\ Len(values) = 0
        IN  /\ refused => /\ Returned.err = Some(parameter_ErrDropdownNoOptions)
                          /\ Returned.val.allowedValues = Receiver.allowedValues
            /\ (Receiver.dataType # "DROPDOWN" \/ Len(values) > 0) =>
                    /\ IsNil(Returned.err)
                    /\ Len(Returned.val.allowedValues) = Len(values)
                    /\ \A i \in 1..Len(values) : Returned.val.allowedValues[i] = values[i]

\* an empty list accepted by a parameter that is not a DROPDOWN and held a list
C12_Witness ==
    /\ Calling("SetAllowedValues")
    /\ Receiver.dataType = "TEXT"
    /\ Len(Receiver.allowedValues) > 0
    /\ Len(Deref(pin).values) = 0
    /\ IsNil(Returned.err)
    /\ Returned.val.allowedValues = <<>>

\* the timestamp an Update follows: updatedAt, or createdAt before the first
PreviousStamp(e) == IF IsNil(e.updatedAt) THEN e.createdAt ELSE Deref(e.updatedAt)

\* C15: a successful Update of either entity sets updatedBy to the caller's
\* value and updatedAt to a timestamp strictly later than the previous
\* updatedAt (than createdAt on the first update); a failed Update leaves
\* every field as it was.
C15_UpdateStampsLater ==
    (Calling("uom.Update") \/ Calling("parameter.Update")) =>
        IF IsNil(Returned.err)
        THEN /\ Returned.val.updatedBy = Some(Deref(pin).updatedBy)
             /\ ~IsNil(Returned.val.updatedAt)
             /\ Deref(Returned.val.updatedAt) > PreviousStamp(Receiver)
        ELSE Returned.val = Receiver

Mutations ==
    {"uom.Update", "uom.SetAsBaseUOM", "parameter.Update", "SetNumericConstraints",
     "SetAllowedValues"} \cup Setters

\* C16: every mutation method other than the constructors (Update and
\* SetAsBaseUOM of a UOM; Update, SetNumericConstraints, SetAllowedValues,
\* SetUOM, SetDescription, SetMandatory, Activate, Deactivate of a Parameter)
\* stamps updatedAt and updatedBy whenever it changes the entity: after a call
\* that changed a field the entity carries both stamps (the least a stamping
\* method leaves behind, whatever clock and caller it takes them from).
C16_EveryMutationStamps ==
    (~IsNil(pin) /\ Deref(pin).fn \in Mutations /\ Returned.val # Receiver) =>
        /\ ~IsNil(Returned.val.updatedAt)
        /\ ~IsNil(Returned.val.updatedBy)

-----------------------------------------------------------------------------
(* Stored rows                                                             *)

StoredParameters == {paramTable[c] : c \in DOMAIN paramTable}
StoredUoms == {uomTable[c] : c \in DOMAIN uomTable}
OptionsOf(row) == UnmarshalAllowedValues(row.allowed_values)
Succeeded(s) == Done(s) /\ IsNil(slots[s].herr)

\* C13: whatever CreateParameter and UpdateParameter requests have run, in
\* whatever interleaving, every row of mst_parameter whose data type is
\* DROPDOWN holds a non-empty list of allowed values.
C13_DropdownHasOptions ==
    \A row \in StoredParameters : row.data_type = "DROPDOWN" => Len(OptionsOf(row)) > 0

\* an update has turned the NUMERIC parameter RPM into a DROPDOWN, and an
\* update has turned the DROPDOWN parameter TAG into a NUMERIC without a list
C13_Witness ==
    /\ \E s \in Slots : /\ Succeeded(s)
                        /\ slots[s].op = "UpdateParameter"
                        /\ Deref(slots[s].req).parameter_code = RPM
    /\ HasRow(paramTable, RPM) /\ paramTable[RPM].data_type = "DROPDOWN"
    /\ OptionsOf(paramTable[RPM]) = <<"B", "A">>
    /\ HasRow(paramTable, TAG) /\ paramTable[TAG].data_type = "NUMERIC"
    /\ OptionsOf(paramTable[TAG]) = <<>>

\* C14: whatever Create and Update requests have run, every row of
\* mst_parameter that has both min_value and max_value has
\* min_value <= max_value, and every row of mst_uom and of mst_parameter has a
\* non-empty name and a non-empty created_by.
C14_StoredRowsValid ==
    /\ \A row \in StoredParameters :
           /\ Ordered(row.min_value, row.max_value)
           /\ row.parameter_name # ""
           /\ row.created_by # ""
    /\ \A row \in StoredUoms : row.uom_name # "" /\ row.created_by # ""

\* a parameter created with both bounds and a UOM updated, both stored
C14_Witness ==
    /\ \E s \in Slots : /\ Succeeded(s)
                        /\ slots[s].op = "CreateParameter"
                        /\ HasRow(paramTable, PH)
                        /\ paramTable[PH].min_value = Some(1)
                        /\ paramTable[PH].max_value = Some(2)
    /\ \E s \in Slots : /\ Succeeded(s)
                        /\ slots[s].op = "UpdateUOM"
                        /\ HasRow(uomTable, MTR)
                        /\ uomTable[MTR].uom_name = "Metre"

\* code, created_at and created_by of a row
uom_Creation(row) == <<row.uom_code, row.created_at, row.created_by>>
parameter_Creation(row) == <<row.parameter_code, row.created_at, row.created_by>>

\* C17: no step of an Update request, successful or failed, changes the
\* code, created_at or created_by of a stored row (nor adds or removes a
\* row): they keep the values given at creation.
C17_CreationFieldsKept ==
    [][\A s \in Slots :
        (slots'[s] # slots[s] /\ IsUpdate(slots'[s].op))
        => /\ DOMAIN uomTable' = DOMAIN uomTable
           /\ DOMAIN paramTable' = DOMAIN paramTable
           /\ \A c \in DOMAIN uomTable :
                  uom_Creation(uomTable'[c]) = uom_Creation(uomTable[c])
           /\ \A c \in DOMAIN paramTable :
                  parameter_Creation(paramTable'[c]) = parameter_Creation(paramTable[c])]_vars

\* both kinds of Update have succeeded and stamped their rows
C17_Witness ==
    /\ \E s \in Slots : Succeeded(s) /\ slots[s].op = "UpdateUOM"
    /\ \E s \in Slots : Succeeded(s) /\ slots[s].op = "UpdateParameter"
    /\ HasRow(uomTable, MTR) /\ ~IsNil(uomTable[MTR].updated_at)
    /\ uom_Creation(uomTable[MTR]) = uom_Creation(SeedUomTable[MTR])
    /\ \E c \in DOMAIN paramTable :
           /\ ~IsNil(paramTable[c].updated_at)
           /\ parameter_Creation(paramTable[c]) = parameter_Creation(SeedParamTable[c])

\* a successful UpdateUOM or DeleteUOM of the code has run
Touched(code) ==
    \E s \in Slots : /\ Succeeded(s)
                     /\ slots[s].op \in {"UpdateUOM", "DeleteUOM"}
                     /\ Deref(slots[s].req).uom_code = code

\* C18: once CreateUOM has succeeded for a command (code, name, category,
\* isBaseUOM, createdBy), a GetUOM of that code that succeeds while no
\* successful Update or Delete of the code has run returns exactly these
\* five values, isBaseUOM being true only if the command asked for it; NewUOM
\* returns isBaseUOM = false and NewParameter returns isActive = true.
C18_CreateGetRoundTrip ==
    /\ \A sc \in Slots, sg \in Slots :
          (/\ Succeeded(sc) /\ slots[sc].op = "CreateUOM"
           /\ Succeeded(sg) /\ slots[sg].op = "GetUOM"
           /\ Deref(slots[sg].req).uom_code = Deref(slots[sc].req).uom_code
           /\ ~Touched(Deref(slots[sc].req).uom_code))
          => LET cmd == CreateUOM_Command(Deref(slots[sc].req))
                 got == Deref(slots[sg].hval)
             IN /\ got.code = cmd.UOMCode
                /\ got.name = cmd.UOMName
                /\ got.category = cmd.Category
                /\ got.isBaseUOM = cmd.IsBaseUOM
                /\ got.createdBy = cmd.CreatedBy
    /\ \A name \in {"Kilogram", "Kilo"}, category \in {"WEIGHT", "QUANTITY"} :
          LET made == uom_NewUOM(KG, name, category, "admin", now)
          IN IsNil(made.err) /\ made.val.isBaseUOM = FALSE
    /\ \A dataType \in {"NUMERIC", "TEXT", "BOOLEAN", "DROPDOWN"} :
          LET made == parameter_NewParameter(PH, "Acidity", "QUALITY", dataType, "admin", now)
          IN IsNil(made.err) /\ made.val.isActive = TRUE

\* KG was created as a base unit and read back as one
C18_Witness ==
    \E sc \in Slots, sg \in Slots :
        /\ Succeeded(sc) /\ slots[sc].op = "CreateUOM"
        /\ Deref(slots[sc].req).uom_code = KG
        /\ Deref(slots[sc].req).is_base_uom
        /\ Succeeded(sg) /\ slots[sg].op = "GetUOM"
        /\ Deref(slots[sg].req).uom_code = KG
        /\ Deref(slots[sg].hval).isBaseUOM
        /\ Deref(slots[sg].hval).name = "Kilogram"

IsGet(op) == op \in {"GetUOM", "GetParameter"}
IsDelete(op) == op \in {"DeleteUOM", "DeleteParameter"}

\* C19: a Delete of a stored code succeeds and removes the row; a Get, an
\* Update or a Delete of a code that is not stored (never created, or deleted
\* and not created again since) returns NotFound and leaves the store as it
\* was, the Delete handler returning the repository's NotFound itself; a row
\* comes into the store only by a successful Create of its code. Statements
\* that fail for other reasons than the row are left aside.
C19_DeleteSemantics ==
    [][\A s \in Slots :
        slots'[s] # slots[s]
        => LET op == slots'[s].op
               req == Deref(slots'[s].req)
               code == CodeOf(op, req)
               valid == IsNil(InvalidValueObject(op, req))
               noFault == slots'[s].herr # Some(ErrBadConn)
           IN /\ (IsDelete(op) /\ valid /\ noFault /\ code \in StoredCodes(op))
                   => /\ slots'[s].pc = "done"
                      /\ IsNil(slots'[s].herr)
                      /\ IF IsUomOp(op) THEN uomTable' = DropRow(uomTable, code)
                         ELSE paramTable' = DropRow(paramTable, code) /\ uomTable' = uomTable
              /\ (/\ IsDelete(op) \/ IsGet(op) \/ IsUpdate(op)
                  /\ valid /\ noFault /\ code \notin StoredCodes(op)
                  /\ slots'[s].herr \notin {Some(e) : e \in EntityErrors})
                   => /\ slots'[s].pc = "done"
                      /\ slots'[s].herr = Some(NotFoundOf(op))
                      /\ uomTable' = uomTable /\ paramTable' = paramTable
              /\ \A c \in DOMAIN uomTable' \ DOMAIN uomTable :
                     op = "CreateUOM" /\ code = c /\ IsNil(slots'[s].herr)
              /\ \A c \in DOMAIN paramTable' \ DOMAIN paramTable :
                     op = "CreateParameter" /\ code = c /\ IsNil(slots'[s].herr)]_vars

\* MTR was deleted, and a later Get, Update or Delete of MTR found nothing
C19_Witness ==
    /\ ~HasRow(uomTable, MTR)
    /\ \E s \in Slots : Succeeded(s) /\ slots[s].op = "DeleteUOM"
    /\ \E s \in Slots : /\ Done(s)
                        /\ slots[s].op \in {"GetUOM", "UpdateUOM", "DeleteUOM"}
                        /\ Deref(slots[s].req).uom_code = MTR
                        /\ slots[s].herr = Some(uom_ErrNotFound)

-----------------------------------------------------------------------------
(* Value objects                                                           *)

\* the inputs that match ^[A-Z][A-Z0-9_]{0,19}$ and ^[A-Z][A-Z0-9_]{0,49}$
ValidUomCodes == { <<"A">>, KG, <<"K", "_", "9">>, Run(UOMCodeMaxLen) }
ValidParameterCodes ==
    ValidUomCodes \cup { Run(UOMCodeMaxLen + 1), Run(ParameterCodeMaxLen) }

\* the constructor accepted exactly the inputs of valid, returned them
\* unchanged, and refused every other input with invalid
ExactMatch(result, input, valid, invalid) ==
    IF input \in valid THEN IsNil(result.err) /\ result.val = input
    ELSE result.err = Some(invalid)

-----------------------------------------------------------------------------
(* Empty names                                                             *)

\* C21: NewUOM and NewParameter given an empty name return EmptyName and no
\* entity whatever the other arguments are, an empty createdBy included; the
\* Update methods given an empty name return EmptyName and leave every field
\* of the entity as it was.
C21_EmptyNameRefused ==
    /\ (Calling("NewEntity") /\ Deref(pin).name = "") =>
            /\ Returned.uom.err = Some(uom_ErrEmptyName)
            /\ IsNil(Returned.uom.val)
            /\ Returned.parameter.err = Some(parameter_ErrEmptyName)
            /\ IsNil(Returned.parameter.val)
    /\ (Calling("uom.Update") /\ Deref(pin).name = "") =>
            Returned.err = Some(uom_ErrEmptyName) /\ Returned.val = Receiver
    /\ (Calling("parameter.Update") /\ Deref(pin).name = "") =>
            Returned.err = Some(parameter_ErrEmptyName) /\ Returned.val = Receiver

\* both constructors called with an empty name and an empty createdBy
C21_Witness ==
    /\ Calling("NewEntity")
    /\ Deref(pin).name = "" /\ Deref(pin).createdBy = ""
    /\ Returned.uom.err = Some(uom_ErrEmptyName)
    /\ Returned.parameter.err = Some(parameter_ErrEmptyName)

-----------------------------------------------------------------------------
(* Enum mapping tables                                                     *)

\* the wire enum and the domain literal that stand for the same value
UomCategoryPairs ==
    { <<"UOM_CATEGORY_WEIGHT", "WEIGHT">>, <<"UOM_CATEGORY_VOLUME", "VOLUME">>,
      <<"UOM_CATEGORY_QUANTITY", "QUANTITY">>, <<"UOM_CATEGORY_LENGTH", "LENGTH">> }

ParameterCategoryPairs ==
    { <<"PARAMETER_CATEGORY_MACHINE", "MACHINE">>,
      <<"PARAMETER_CATEGORY_MATERIAL", "MATERIAL">>,
      <<"PARAMETER_CATEGORY_QUALITY", "QUALITY">>,
      <<"PARAMETER_CATEGORY_OUTPUT", "OUTPUT">>,
      <<"PARAMETER_CATEGORY_PROCESS", "PROCESS">> }

DataTypePairs ==
    { <<"PARAMETER_DATA_TYPE_NUMERIC", "NUMERIC">>, <<"PARAMETER_DATA_TYPE_TEXT", "TEXT">>,
      <<"PARAMETER_DATA_TYPE_BOOLEAN", "BOOLEAN">>,
      <<"PARAMETER_DATA_TYPE_DROPDOWN", "DROPDOWN">> }

\* what one pair of tables returned for wire enum e and string w, against pairs
MutuallyInverse(out, e, w, pairs, invalid) ==
    /\ IF \E p \in pairs : p[1] = e
       THEN /\ <<e, out.str>> \in pairs
            /\ out.back = e
            /\ IsNil(out.new.err) /\ out.new.val = out.str
       ELSE /\ out.str = ""
            /\ out.new.err = Some(invalid)
    /\ (\E p \in pairs : p[2] = w) =>
            /\ <<out.pb, w>> \in pairs
            /\ out.forth = w

\* C22: the adapters' enum/string tables are total and mutually inverse: a wire
\* enum other than UNSPECIFIED maps to a literal its constructor accepts and
\* maps back to itself, a domain literal maps to a wire enum and back to
\* itself, and UNSPECIFIED or an unknown value maps to the empty string, which
\* the constructor rejects.
C22_EnumTablesInverse ==
    Calling("enum") =>
        /\ MutuallyInverse(Returned.uomCategory, Deref(pin).e, Deref(pin).w,
                           UomCategoryPairs, uom_ErrInvalidCategory)
        /\ MutuallyInverse(Returned.parameterCategory, Deref(pin).e, Deref(pin).w,
                           ParameterCategoryPairs, parameter_ErrInvalidCategory)
        /\ MutuallyInverse(Returned.dataType, Deref(pin).e, Deref(pin).w,
                           DataTypePairs, parameter_ErrInvalidDataType)

\* PROCESS, the last case of its switch, in both directions
C22_Witness ==
    /\ Calling("enum")
    /\ Deref(pin).e = "PARAMETER_CATEGORY_PROCESS" /\ Deref(pin).w = "PROCESS"
    /\ Returned.parameterCategory.back = "PARAMETER_CATEGORY_PROCESS"
    /\ Returned.parameterCategory.forth = "PROCESS"
    /\ Returned.uomCategory.str = ""

-----------------------------------------------------------------------------
(* Repository errors in the handlers                                       *)

\* what the repository answers to the call the handler of op makes from pc,
\* for the code (and uom) of req, in the tables as they are, under fault
RepositoryAnswer(op, pc, req, local, fault) ==
    CASE op = "CreateUOM" /\ pc = "idle" ->
            UOMRepository_ExistsByCode(uomTable, req.uom_code, fault)
      [] op = "CreateUOM" /\ pc = "checked" ->
            UOMRepository_Create(uomTable,
                uom_NewUOM(local.code, "-", local.category, "-", now).val, fault)
      [] op \in {"GetUOM", "UpdateUOM"} /\ pc = "idle" ->
            UOMRepository_GetByCode(uomTable, req.uom_code, fault)
      [] op = "UpdateUOM" /\ pc = "loaded" ->
            UOMRepository_Update(uomTable, local.entity, fault)
      [] op = "DeleteUOM" -> UOMRepository_Delete(uomTable, req.uom_code, fault)
      [] op = "ListUOMs" /\ pc = "idle" ->
            UOMRepository_ListCount(uomTable, [Category |-> Nil], fault)
      [] op = "ListUOMs" /\ pc = "counted" ->
            UOMRepository_ListData(uomTable, local.filter, fault)
      [] op = "CreateParameter" /\ pc = "idle" ->
            ParameterRepository_ExistsByCode(paramTable, req.parameter_code, fault)
      [] op = "CreateParameter" /\ pc = "checked" ->
            ParameterRepository_Create(paramTable, uomTable,
                parameter_SetUOM(parameter_NewParameter(local.code, "-", local.category,
                                                        local.dataType, "-", now).val,
                                 req.uom), fault)
      [] op \in {"GetParameter", "UpdateParameter"} /\ pc = "idle" ->
            ParameterRepository_GetByCode(paramTable, req.parameter_code, fault)
      [] op = "UpdateParameter" /\ pc = "loaded" ->
            ParameterRepository_Update(paramTable, uomTable,
                parameter_SetUOM(local.entity, req.uom), fault)
      [] op = "DeleteParameter" ->
            ParameterRepository_Delete(paramTable, req.parameter_code, fault)
      [] op = "ListParameters" /\ pc = "idle" ->
            ParameterRepository_ListCount(paramTable,
                [Category |-> Nil, IsActive |-> Nil], fault)
      [] op = "ListParameters" /\ pc = "counted" ->
            ParameterRepository_ListData(paramTable, local.filter, fault)

\* slot s takes a step in which its handler calls the repository (the second
\* statement of List belongs to the one List call)
CallMade(s) ==
    /\ slots'[s] # slots[s]
    /\ Len(slots'[s].calls) > Len(slots[s].calls) \/ slots[s].pc = "counted"

NoRepeat(calls) == \A i, j \in 1..Len(calls) : calls[i] = calls[j] => i = j

\* C23: when a repository call made by a handler returns an error, the
\* handler returns that very error, unmodified, and makes no further
\* repository call: it neither goes on nor calls again; and one handler
\* invocation calls each repository method at most once.
C23_RepositoryErrorReturnedAsIs ==
    [][\A s \in Slots :
        /\ NoRepeat(slots'[s].calls)
        /\ Done(s) => slots'[s] = slots[s]
        /\ CallMade(s) =>
              \E fault \in Faults :
                 LET r == RepositoryAnswer(slots'[s].op, slots[s].pc,
                                           Deref(slots'[s].req),
                                           Deref(slots[s].local), fault)
                 IN IF ~IsNil(r.err)
                    THEN /\ slots'[s].pc = "done"
                         /\ slots'[s].herr = r.err
                         /\ Len(slots'[s].calls) <= Len(slots[s].calls) + 1
                    ELSE slots'[s].herr \in {Nil, Some(AlreadyExistsOf(slots'[s].op))}
    ]_vars

\* an Update whose load succeeded and whose repository Update failed on the
\* connection, and a Create that the repository refused as a duplicate
C23_Witness ==
    \E s \in Slots :
        /\ Done(s)
        /\ \/ /\ slots[s].op = "UpdateUOM"
              /\ slots[s].calls = <<"GetByCode", "Update">>
              /\ slots[s].herr = Some(ErrBadConn)
           \/ /\ slots[s].op = "UpdateParameter"
              /\ slots[s].calls = <<"GetByCode", "Update">>
              /\ slots[s].herr = Some(ErrForeignKeyViolation)

-----------------------------------------------------------------------------
(* The cache helper                                                        *)

\* the cache given to the call does not answer from a stored value: it is
\* disabled, misses, or fails
Disabled(cache) ==
    \/ cache.type = "NoOpCache"
    \/ cache.type = "RedisCache"
       /\ (IsNil(cache.self) \/ IsNil(Deref(cache.self).client))

\* C24: Cached never fails because of the cache: on a miss, on an error of
\* cache.Get or cache.Set, and with a disabled cache (a nil *RedisCache, one
\* without a client, a NoOpCache) it calls fn once and returns exactly fn's
\* result and fn's error; fn is skipped only when Get reports found with no
\* error.
C24_CachedNeverFailsOnCache ==
    Calling("Cached") =>
        LET hit == Returned.got.found /\ IsNil(Returned.got.err)
        IN /\ Returned.fnCalls = (IF hit THEN 0 ELSE 1)
           /\ ~hit => /\ Returned.result = Deref(pin).call.val
                       /\ Returned.err = Deref(pin).call.err
           /\ hit => IsNil(Returned.err)
           /\ Disabled(Deref(pin).cache) => ~hit /\ Returned.cache = Deref(pin).cache
           /\ (Deref(pin).cache.type = "RedisCache" /\ ~IsNil(Deref(pin).getFault)) => ~hit

\* fn's value returned although reading the cache left bytes half decoded and
\* writing it failed
C24_Witness ==
    /\ Calling("Cached")
    /\ Returned.got.dest = Partial
    /\ ~Returned.got.found
    /\ Returned.set = Some(Some(ErrBadConn))
    /\ Returned.result = 2 /\ IsNil(Returned.err) /\ Returned.fnCalls = 1

-----------------------------------------------------------------------------
(* The Validation interceptor                                              *)

\* the value a marshalled object holds under key, or absent when the key was
\* left out
JsonField(object, key, absent) ==
    IF \E kv \in object : kv[1] = key
    THEN (CHOOSE kv \in object : kv[1] = key)[2]
    ELSE absent

\* C25: a request that fails schema validation never reaches the handler:
\* the caller receives InvalidArgument whose payload is an envelope with
\* status_code "400", is_success false, message "Validation failed" and at
\* least one validation error; a request that passes is forwarded as it is,
\* once, and the handler's answer is returned.
C25_InvalidRequestNeverHandled ==
    (Calling("Validation") /\ Deref(pin).req.isProto) =>
        IF ~IsNil(Deref(pin).verr)
        THEN /\ Returned.forwarded = <<>>
             /\ IsNil(Returned.resp)
             /\ ~IsNil(Returned.err)
             /\ Deref(Returned.err).code = "InvalidArgument"
             /\ LET payload == Deref(Returned.err).message
                IN /\ JsonField(payload, "status_code", "") = "400"
                   /\ JsonField(payload, "is_success", FALSE) = FALSE
                   /\ JsonField(payload, "message", "") = "Validation failed"
                   /\ Len(JsonField(payload, "validation_errors", <<>>)) >= 1
        ELSE /\ Returned.forwarded = <<Deref(pin).req>>
             /\ Returned.resp = Deref(pin).handled.resp
             /\ Returned.err = Deref(pin).handled.err

\* a validator error whose text holds the marker and nothing after it
C25_Witness ==
    /\ Calling("Validation")
    /\ Deref(pin).verr = Some([type |-> "RuntimeError", Error |-> <<Marker, " ">>])
    /\ Returned.forwarded = <<>>
    /\ Len(JsonField(Deref(Returned.err).message, "validation_errors", <<>>)) = 1

-----------------------------------------------------------------------------
(* Update against Delete                                                   *)

InjectedFaults == Faults \ {NoFault}

\* the table the operation works on, before and after the step
TableOf(op) == IF IsUomOp(op) THEN uomTable ELSE paramTable
TableAfter(op) == IF IsUomOp(op) THEN uomTable' ELSE paramTable'

\* C26: however an Update and a Delete of the same code interleave, the
\* Update never brings a deleted row back: when the row is gone by the time
\* the Update statement runs, the Update returns NotFound and the code stays
\* absent; when the row is still there the Update succeeds, and a Delete
\* that runs on a row that is there removes it.
C26_UpdateNeverRecreates ==
    [][\A s \in Slots :
        LET op == slots'[s].op
            code == CodeOf(op, Deref(slots'[s].req))
            herr == slots'[s].herr
        IN /\ (slots'[s] # slots[s] /\ IsUpdate(op)) =>
                /\ DOMAIN TableAfter(op) = DOMAIN TableOf(op)
                /\ (slots[s].pc = "loaded" /\ Len(slots'[s].calls) = 2) =>
                      IF code \notin DOMAIN TableOf(op)
                      THEN herr \in {Some(NotFoundOf(op))} \cup InjectedFaults
                      ELSE /\ herr \in {Nil, Some(ErrForeignKeyViolation)} \cup InjectedFaults
                           /\ IsNil(herr) => ~IsNil(TableAfter(op)[code].updated_at)
           /\ (slots'[s] # slots[s] /\ IsDelete(op) /\ code \in DOMAIN TableOf(op)) =>
                /\ herr \in {Nil} \cup InjectedFaults
                /\ IsNil(herr) => code \notin DOMAIN TableAfter(op)
    ]_vars

\* an Update that loaded the row, lost it to a Delete, and returned NotFound
C26_Witness ==
    \E s, d \in Slots :
        /\ Done(s) /\ slots[s].op = "UpdateUOM"
        /\ slots[s].calls = <<"GetByCode", "Update">>
        /\ slots[s].herr = Some(uom_ErrNotFound)
        /\ Done(d) /\ slots[d].op = "DeleteUOM" /\ IsNil(slots[d].herr)
        /\ Deref(slots[d].req).uom_code = Deref(slots[s].req).uom_code
        /\ Deref(slots[s].req).uom_code \notin DOMAIN uomTable

-----------------------------------------------------------------------------
(* Offsets and page sizes                                                  *)

\* C27: for every ListFilter, whatever its page and pageSize, Offset() is not
\* negative and equals (max(page, 1) - 1) * Limit(), so that pages 1, 2, 3, ...
\* hold every matching row exactly once.
C27_OffsetFollowsLimit ==
    Filtering =>
        /\ Deref(pout).offset >= 0
        /\ Deref(pout).offset = (Max2(Deref(pin).Page, 1) - 1) * Deref(pout).limit

\* the page size a List works with when the request asks for pageSize
EffectivePageSize(pageSize) ==
    IF pageSize <= 0 THEN 10 ELSE IF pageSize > 100 THEN 100 ELSE pageSize

\* C28: a List request whose page_size is unset (0) or outside 1..100, and
\* whose handler succeeds, is answered with a success envelope, with no more
\* rows than the effective page size, and with pagination metadata whose
\* page_size and total_pages are those of the effective page size.
C28_OutOfRangePageSizeAnswered ==
    \A s \in Slots :
        (/\ Done(s) /\ IsList(slots[s].op) /\ slots[s].invoked /\ IsNil(slots[s].herr)
         /\ Deref(slots[s].req).page_size \notin 1..100)
        => LET resp == Deref(slots[s].resp)
               size == EffectivePageSize(Deref(slots[s].req).page_size)
           IN /\ IsNil(resp.transport)
              /\ ~IsNil(resp.base) /\ Deref(resp.base).is_success
              /\ Len(Deref(resp.data)) <= size
              /\ Deref(resp.pagination).page_size = size
              /\ Deref(resp.pagination).total_pages
                    = CeilDiv(Deref(resp.pagination).total_items, size)

-----------------------------------------------------------------------------
(* The rate limiter                                                        *)

\* the calls that were granted a token of the bucket at address at instant t
GrantedFrom(address, t) ==
    {g \in Calls : /\ allowing'[g].pc = "done" /\ allowing'[g].ok
                   /\ allowing'[g].bucket = address /\ allowing'[g].at = t}

\* C29: the tokens of every bucket stay within 0 and maxTokens; Allow returns
\* true exactly when, after the refill, at least one token is there, and then
\* takes exactly one; it returns false and takes none otherwise; and while no
\* time passes no more than maxTokens calls on a bucket return true.
C29_TokenBucket ==
    [][/\ \A a \in 1..Len(limiter'.heap) :
            /\ 0 <= limiter'.heap[a].tokens
            /\ limiter'.heap[a].tokens <= limiter'.heap[a].maxTokens
            /\ \A t \in 0..now' :
                  Cardinality(GrantedFrom(a, t)) * Unit <= limiter'.heap[a].maxTokens
       /\ \A g \in Calls :
            (allowing[g].pc = "found" /\ allowing'[g].pc = "done") =>
                LET tb == limiter.heap[allowing[g].bucket]
                    after == limiter'.heap[allowing[g].bucket]
                    refill == tb.tokens + (now - tb.lastRefill) * tb.refillRate
                    available == IF refill < tb.maxTokens THEN refill ELSE tb.maxTokens
                IN /\ allowing'[g].ok = (available >= Unit)
                   /\ after.tokens = available - (IF allowing'[g].ok THEN Unit ELSE 0)
                   /\ after.lastRefill = now
    ]_vars

\* a bucket of one and a half tokens, drawn from twice in the same second: one
\* call granted, one refused, half a token left
C29_Witness ==
    \E g, h \in Calls :
        /\ allowing[g].pc = "done" /\ allowing[g].ok
        /\ allowing[h].pc = "done" /\ ~allowing[h].ok
        /\ allowing[g].bucket = allowing[h].bucket /\ allowing[g].at = allowing[h].at
        /\ limiter.heap[allowing[g].bucket].tokens = 1

\* C30: however concurrent calls of Allow for one key that was never seen
\* before interleave, one bucket is installed for the key and every one of
\* the calls draws from it, so that the calls granted for a key while no time
\* passes are no more than maxTokens.
C30_OneBucketPerKey ==
    /\ \A g, h \in Calls :
          (/\ allowing[g].pc = "done" /\ allowing[h].pc = "done"
           /\ allowing[g].key = allowing[h].key
           /\ allowing[g].unseen /\ allowing[h].unseen)
          => allowing[g].bucket = allowing[h].bucket
    /\ \A key \in Keys, t \in 0..now :
          Cardinality({g \in Calls : /\ allowing[g].pc = "done" /\ allowing[g].ok
                                     /\ allowing[g].key = key /\ allowing[g].at = t})
              * Unit <= limiter.maxTokens

====
